---------------------------- MODULE Spec2Model ----------------------------
(***************************************************************************)
(* Verification model of the blog-agent repository.                        *)
(*                                                                         *)
(* Part 1 (specification Spec): the retry utilities of retryUtils.ts       *)
(*   withRetry, calculateExponentialDelay, parseRateLimitHeaders and       *)
(*   handleApiError, driven by a generic operation or by a service call    *)
(*   whose transport errors go through handleApiError.                     *)
(* Part 2 (specification SpecBatch): the batch driver                      *)
(*   BlogGenerator.generateAllPosts around the per-title pipeline          *)
(*   ContentProcessor.generateBlogContent.                                 *)
(*                                                                         *)
(* Times are in milliseconds.  JavaScript strings that the code parses are *)
(* sequences of one-character strings.                                     *)
(***************************************************************************)
EXTENDS Integers, Sequences, FiniteSets, TLC

(***************************************************************************)
(* Bounds of the model.                                                    *)
(***************************************************************************)
\* Math.random() is drawn from {0/JitterSteps, ..., (JitterSteps-1)/JitterSteps}.
JitterSteps == 5
\* Per-invocation overrides {maxRetries: n} are drawn for n in 0..MaxRetriesOverride.
MaxRetriesOverride == 2

(***************************************************************************)
(* JavaScript values.                                                      *)
(***************************************************************************)
\* An optional number that is not set (retryAfterMs?: number, statusCode of a
\* plain Error, error.code of an error without one).
undefined == 0 - 1
\* The number NaN (Date.getTime() of an invalid date, parseInt of a non-number).
NaN == 0 - 2

\* JavaScript truthiness of an optional number: undefined, NaN and 0 are falsy.
Truthy(v) == v # undefined /\ v # NaN /\ v # 0

Min(a, b) == IF a <= b THEN a ELSE b
Max(a, b) == IF a >= b THEN a ELSE b

\* Math.max(0, x): NaN if x is NaN.
MathMax0(x) == IF x = NaN THEN NaN ELSE Max(0, x)

RECURSIVE Pow(_, _)
\* Math.pow(b, n) for a natural exponent.
Pow(b, n) == IF n = 0 THEN 1 ELSE b * Pow(b, n - 1)

(***************************************************************************)
(* Strings.                                                                *)
(***************************************************************************)
Digits == <<"0", "1", "2", "3", "4", "5", "6", "7", "8", "9">>

IsDigit(c) == \E i \in 1..10 : Digits[i] = c

DigitVal(c) == (CHOOSE i \in 1..10 : Digits[i] = c) - 1

\* A header that the response does not carry (headers[name] is undefined).
NoHeader == <<"undefined">>

\* if (headers[name]): a header is truthy when it is present and not "".
HeaderTruthy(h) == h # NoHeader /\ Len(h) > 0

\* retryAfter.match(/^\d+$/): one or more characters, all of them digits.
MatchesDigits(s) == Len(s) > 0 /\ \A i \in 1..Len(s) : IsDigit(s[i])

RECURSIVE ParseDigits(_, _, _)
\* The value of the longest digit prefix of s from position i, acc so far.
ParseDigits(s, i, acc) ==
    IF i > Len(s) \/ ~IsDigit(s[i]) THEN acc
    ELSE ParseDigits(s, i + 1, 10 * acc + DigitVal(s[i]))

\* parseInt(s, 10): the number its leading digits spell, NaN when it has none.
parseInt(s) ==
    IF Len(s) = 0 \/ ~IsDigit(s[1]) THEN NaN ELSE ParseDigits(s, 1, 0)

\* new Date(s).getTime().  An HTTP-date is written here as the letter "D"
\* followed by the digits of its instant in seconds since the epoch; any
\* other string is not a date and gives NaN (Invalid Date).
DateGetTime(s) ==
    IF Len(s) >= 2 /\ s[1] = "D" /\ MatchesDigits(SubSeq(s, 2, Len(s)))
    THEN parseInt(SubSeq(s, 2, Len(s))) * 1000
    ELSE NaN

(***************************************************************************)
(* retryUtils.ts: the retry policy.                                        *)
(***************************************************************************)
DEFAULT_RETRY_OPTIONS ==
    [maxRetries |-> 3,
     baseDelayMs |-> 1000,
     maxDelayMs |-> 30000,
     exponentialBase |-> 2,
     retryableErrors |-> {429, 500, 502, 503, 504}]

\* { ...DEFAULT_RETRY_OPTIONS, ...options }: a key of options wins.
MergeOptions(defaults, options) ==
    [k \in DOMAIN defaults |->
        IF k \in DOMAIN options THEN options[k] ELSE defaults[k]]

\* withRetry(operation) with no options argument: options = {}.
NoOptions == [k \in {} |-> 0]

\* The options of the text service's call site (OpenRouterService.generateContent).
OpenRouterOptions == [maxRetries |-> 3, baseDelayMs |-> 1000, maxDelayMs |-> 30000]

\* The options of the image service's call sites (PexelsService).
PexelsCoverOptions == [maxRetries |-> 3, baseDelayMs |-> 1000, maxDelayMs |-> 60000]

PexelsInlineOptions == [maxRetries |-> 3, baseDelayMs |-> 2000, maxDelayMs |-> 60000]

\* The options testRetryFunctionality passes (Test 1), and other Partial<RetryOptions>
\* a caller of the generic wrapper may pass (Test 2 is {maxRetries: 2}).
GenericOptions ==
    {NoOptions,
     [maxRetries |-> 3, baseDelayMs |-> 500],
     [maxDelayMs |-> 2100],
     [exponentialBase |-> 3, maxDelayMs |-> 5000],
     [retryableErrors |-> {429}]}
    \cup {[maxRetries |-> n] : n \in 0..MaxRetriesOverride}

\* A call site of withRetry: the kind of operation it wraps and its options.
CallSites ==
    {[op |-> "generic", options |-> o] : o \in GenericOptions}
    \cup {[op |-> "service", options |-> o] :
            o \in {OpenRouterOptions, PexelsCoverOptions, PexelsInlineOptions}}

(***************************************************************************)
(* Errors.                                                                 *)
(***************************************************************************)
\* new RetryableError(message, statusCode, retryAfterMs)
RetryableError(statusCode, retryAfterMs) ==
    [name |-> "RetryableError", statusCode |-> statusCode,
     retryAfterMs |-> retryAfterMs, code |-> "none", at |-> 0]

\* new Error(`Client error (${status}): ...`): a plain Error; the status is only
\* in its message, kept here in statusCode for the claims to read.
ClientError(status) ==
    [name |-> "Error", statusCode |-> status,
     retryAfterMs |-> undefined, code |-> "none", at |-> 0]

\* new Error("Non-retryable error"), as an operation may throw it.
PlainError ==
    [name |-> "Error", statusCode |-> undefined,
     retryAfterMs |-> undefined, code |-> "none", at |-> 0]

\* The transport error itself, rethrown by handleApiError (throw error).
RawError(error) ==
    [name |-> "TransportError",
     statusCode |-> IF error.hasResponse THEN error.status ELSE undefined,
     retryAfterMs |-> undefined, code |-> error.code, at |-> 0]

NoError ==
    [name |-> "none", statusCode |-> undefined,
     retryAfterMs |-> undefined, code |-> "none", at |-> 0]

\* error instanceof RetryableError
IsRetryableError_always(error) == TRUE

IsRetryableError_never(error) == FALSE

IsRetryableError(error) == error.name = "RetryableError"

(***************************************************************************)
(* retryUtils.ts: parseRateLimitHeaders.                                   *)
(***************************************************************************)
Headers(retryAfter, remaining, reset) ==
    [retryAfter |-> retryAfter, remaining |-> remaining, reset |-> reset]

\* error.response.headers || {}
NoHeaders == Headers(NoHeader, NoHeader, NoHeader)

\* The retryAfterMs that the retry-after branch assigns (lines 166-178).
RetryAfterMsOf_noClamp(retryAfter, now) ==
    IF MatchesDigits(retryAfter)
    THEN parseInt(retryAfter) * 1000
    ELSE IF DateGetTime(retryAfter) = NaN THEN NaN
         ELSE DateGetTime(retryAfter) - now

RetryAfterMsOf(retryAfter, now) ==
    IF MatchesDigits(retryAfter)
    THEN parseInt(retryAfter) * 1000
    ELSE IF DateGetTime(retryAfter) = NaN THEN NaN
         ELSE MathMax0(DateGetTime(retryAfter) - now)

parseRateLimitHeaders(headers, now) ==
    [isRateLimited |-> HeaderTruthy(headers.retryAfter),
     retryAfterMs |->
        IF HeaderTruthy(headers.retryAfter)
        THEN RetryAfterMsOf(headers.retryAfter, now)
        ELSE undefined,
     remainingRequests |->
        IF HeaderTruthy(headers.remaining)
        THEN parseInt(headers.remaining)
        ELSE undefined,
     resetTime |->
        IF HeaderTruthy(headers.reset)
        THEN (IF parseInt(headers.reset) = NaN THEN NaN
              ELSE parseInt(headers.reset) * 1000)
        ELSE undefined]

(***************************************************************************)
(* retryUtils.ts: handleApiError.                                          *)
(***************************************************************************)
\* A transport error as the HTTP client raises it: with a response (status and
\* headers) or without one (error.code names the network failure).
ResponseError(status, headers) ==
    [hasResponse |-> TRUE, status |-> status, headers |-> headers, code |-> "none"]

NetworkError(code) ==
    [hasResponse |-> FALSE, status |-> undefined, headers |-> NoHeaders, code |-> code]

NoTransport == NetworkError("unset")

\* [500, 502, 503, 504].includes(status)
ServerErrorStatuses == {500, 502, 503, 504}

\* error.code === "ECONNRESET" || "ETIMEDOUT" || "ENOTFOUND"
NetworkCodes == {"ECONNRESET", "ETIMEDOUT", "ENOTFOUND"}

\* Lines 218-228: the network check and the final throw error.
ClassifyNetwork(error) ==
    IF error.code \in NetworkCodes
    THEN RetryableError(0, undefined)
    ELSE RawError(error)

\* The error that handleApiError(error) throws when Date.now() is now.
handleApiError(error, now) ==
    IF error.hasResponse
    THEN LET rateLimitInfo == parseRateLimitHeaders(error.headers, now)
         IN  IF error.status = 429 \/ rateLimitInfo.isRateLimited
             THEN RetryableError(error.status,
                                 IF Truthy(rateLimitInfo.retryAfterMs)
                                 THEN rateLimitInfo.retryAfterMs
                                 ELSE 60000)
             ELSE IF error.status \in ServerErrorStatuses
             THEN RetryableError(error.status, undefined)
             ELSE IF error.status >= 400 /\ error.status < 500
             THEN ClientError(error.status)
             ELSE ClassifyNetwork(error)
    ELSE ClassifyNetwork(error)

(***************************************************************************)
(* retryUtils.ts: calculateExponentialDelay and the delay withRetry picks. *)
(***************************************************************************)
\* Math.random() = r / JitterSteps; the jitter is random * 0.1 * delay.
calculateExponentialDelay_noCap(attempt, options, r) ==
    LET delay == options.baseDelayMs * Pow(options.exponentialBase, attempt)
        jitter == (r * delay) \div (10 * JitterSteps)
    IN  delay + jitter

calculateExponentialDelay(attempt, options, r) ==
    LET delay == options.baseDelayMs * Pow(options.exponentialBase, attempt)
        jitter == (r * delay) \div (10 * JitterSteps)
    IN  Min(delay + jitter, options.maxDelayMs)

\* error.retryAfterMs || calculateExponentialDelay(attempt, config)
RetryDelay(error, attempt, options, r) ==
    IF Truthy(error.retryAfterMs)
    THEN error.retryAfterMs
    ELSE calculateExponentialDelay(attempt, options, r)

\* if (attempt === config.maxRetries): the last allowed invocation has failed.
IsLastAttempt_oneEarly(attempt, options) == attempt + 1 >= options.maxRetries

IsLastAttempt(attempt, options) == attempt = options.maxRetries

(***************************************************************************)
(* The operations that withRetry wraps.                                    *)
(***************************************************************************)
\* What one invocation of the operation does: it returns a value or throws.
Returns(success) == [throws |-> FALSE, success |-> success, error |-> NoError]

Throws(error) == [throws |-> TRUE, success |-> FALSE, error |-> error]

\* The wait hints a RetryableError thrown by a generic operation may carry
\* (Test 1 throws new RetryableError("Simulated rate limit", 429, 1000)).
GenericHints == {undefined, 0, 1000, 2000}

\* The status codes such an error may carry: one of the policy's, one that is
\* not in any policy, and the 0 of a network error.
GenericStatuses == {429, 418, 0}

\* A generic operation, as in testRetryFunctionality.
GenericOutcomes ==
    {Returns(TRUE), Throws(PlainError)}
    \cup {Throws(RetryableError(s, h)) : s \in GenericStatuses, h \in GenericHints}

\* The response headers the upstream may send with an error response.
HeaderCases ==
    {NoHeaders,
     Headers(<<"2">>, NoHeader, NoHeader),
     Headers(<<"0">>, NoHeader, NoHeader),
     Headers(<<"D", "9">>, NoHeader, NoHeader),
     Headers(<<"D", "1">>, NoHeader, NoHeader),
     Headers(<<"s", "o", "o", "n">>, NoHeader, NoHeader),
     Headers(<<>>, NoHeader, NoHeader),
     Headers(NoHeader, <<"1", "0">>, <<"9">>),
     Headers(<<"3", "0">>, <<"0">>, <<"9">>)}

\* The statuses of an error response.
StatusCases == {400, 404, 429, 500, 501, 503}

\* error.code of an error without a response; ECONNABORTED is the HTTP
\* client's own timeout, "none" an error with no code.
CodeCases == {"ECONNRESET", "ETIMEDOUT", "ENOTFOUND", "ECONNABORTED", "none"}

TransportErrors ==
    {ResponseError(s, h) : s \in StatusCases, h \in HeaderCases}
    \cup {NetworkError(c) : c \in CodeCases}

\* Date.now() when the error is classified.
NowCases == {3000, 5000}

(***************************************************************************)
(* State of one withRetry(operation, options) call.                        *)
(***************************************************************************)
VARIABLES
    site,           \* the call site: the operation kind and the options passed
    config,         \* const config = { ...DEFAULT_RETRY_OPTIONS, ...options }
    attempt,        \* the loop variable
    pc,             \* "call", "sleep" (in await delay), "returned", "thrown"
    calls,          \* invocations of operation so far
    sleeps,         \* delays completed so far
    lastError,      \* let lastError
    thrown,         \* the error withRetry has rejected with
    result,         \* the value withRetry has resolved with
    delayMs,        \* const delayMs of the current iteration
    transport,      \* the error last given to handleApiError
    rateLimitInfo,  \* const rateLimitInfo of that handleApiError call
    now             \* Date.now() when it was classified

retryVars ==
    <<site, config, attempt, pc, calls, sleeps, lastError, thrown, result,
      delayMs, transport, rateLimitInfo, now>>

NoResult == [at |-> 0, success |-> FALSE]

\* const rateLimitInfo = { isRateLimited: false } before any header is read.
NoRateLimitInfo ==
    [isRateLimited |-> FALSE, retryAfterMs |-> undefined,
     remainingRequests |-> undefined, resetTime |-> undefined]

InitRetry ==
    /\ site \in CallSites
    /\ config = MergeOptions(DEFAULT_RETRY_OPTIONS, site.options)
    /\ attempt = 0
    /\ pc = "call"
    /\ calls = 0
    /\ sleeps = 0
    /\ lastError = NoError
    /\ thrown = NoError
    /\ result = NoResult
    /\ delayMs = undefined
    /\ transport = NoTransport
    /\ rateLimitInfo = NoRateLimitInfo
    /\ now = 0

\* A variant of the loop that takes a returned { success: false } for a
\* failure: it waits and invokes operation again while attempts remain.
Iterate_retriesFailureValue(outcome, r) ==
    /\ pc = "call"
    /\ attempt <= config.maxRetries
    /\ calls' = calls + 1
    /\ IF ~outcome.throws
       THEN /\ result' = [at |-> calls + 1, success |-> outcome.success]
            /\ IF outcome.success \/ IsLastAttempt(attempt, config)
               THEN /\ pc' = "returned"
                    /\ UNCHANGED delayMs
               ELSE /\ pc' = "sleep"
                    /\ delayMs' = calculateExponentialDelay(attempt, config, r)
            /\ UNCHANGED <<lastError, thrown>>
       ELSE LET error == [outcome.error EXCEPT !.at = calls + 1]
            IN  /\ lastError' = error
                /\ UNCHANGED result
                /\ IF IsLastAttempt(attempt, config)
                   THEN /\ thrown' = error
                        /\ pc' = "thrown"
                        /\ UNCHANGED delayMs
                   ELSE IF IsRetryableError(error)
                   THEN /\ delayMs' = RetryDelay(error, attempt, config, r)
                        /\ pc' = "sleep"
                        /\ UNCHANGED thrown
                   ELSE /\ thrown' = error
                        /\ pc' = "thrown"
                        /\ UNCHANGED delayMs
    /\ UNCHANGED <<site, config, attempt, sleeps>>

\* One iteration of the loop of withRetry, from the invocation of operation to
\* its return, its throw, or the start of await delay(delayMs) (lines 109-142).
\* outcome is what this invocation of operation does, r the value of Math.random().
Iterate(outcome, r) ==
    /\ pc = "call"
    /\ attempt <= config.maxRetries
    /\ calls' = calls + 1
    /\ IF ~outcome.throws
       THEN /\ result' = [at |-> calls + 1, success |-> outcome.success]
            /\ pc' = "returned"
            /\ UNCHANGED <<lastError, thrown, delayMs>>
       ELSE LET error == [outcome.error EXCEPT !.at = calls + 1]
            IN  /\ lastError' = error
                /\ UNCHANGED result
                /\ IF IsLastAttempt(attempt, config)
                   THEN /\ thrown' = error
                        /\ pc' = "thrown"
                        /\ UNCHANGED delayMs
                   ELSE IF IsRetryableError(error)
                   THEN /\ delayMs' = RetryDelay(error, attempt, config, r)
                        /\ pc' = "sleep"
                        /\ UNCHANGED thrown
                   ELSE /\ thrown' = error
                        /\ pc' = "thrown"
                        /\ UNCHANGED delayMs
    /\ UNCHANGED <<site, config, attempt, sleeps>>

\* withRetry around a generic operation.
InvokeOperation ==
    /\ site.op = "generic"
    /\ \E outcome \in GenericOutcomes, r \in 0..(JitterSteps - 1) :
          Iterate(outcome, r)
    /\ UNCHANGED <<transport, rateLimitInfo, now>>

\* withRetry around a service call that gets a response: the wrapper returns
\* { success: true, data } or, for an empty response, { success: false, error }.
InvokeServiceOk ==
    /\ site.op = "service"
    /\ \E success \in BOOLEAN : Iterate(Returns(success), 0)
    /\ UNCHANGED <<transport, rateLimitInfo, now>>

\* withRetry around a service call whose request fails: the wrapper's catch
\* gives the transport error to handleApiError, which throws.
InvokeServiceError ==
    /\ site.op = "service"
    /\ \E error \in TransportErrors, t \in NowCases, r \in 0..(JitterSteps - 1) :
          /\ transport' = error
          /\ now' = t
          /\ rateLimitInfo' =
                IF error.hasResponse
                THEN parseRateLimitHeaders(error.headers, t)
                ELSE NoRateLimitInfo
          /\ Iterate(Throws(handleApiError(error, t)), r)

\* await delay(delayMs) completes; continue with attempt++.
Wake ==
    /\ pc = "sleep"
    /\ pc' = "call"
    /\ attempt' = attempt + 1
    /\ sleeps' = sleeps + 1
    /\ UNCHANGED <<site, config, calls, lastError, thrown, result, delayMs,
                   transport, rateLimitInfo, now>>

(***************************************************************************)
(* The batch driver and the per-title pipeline.                            *)
(*                                                                         *)
(* BlogGenerator.generateAllPosts loops over the titles and calls          *)
(* generateAndSavePost for each; the document of a title is produced by    *)
(* ContentProcessor.generateBlogContent (outline, expansion, metadata,     *)
(* images, validation).  A text is described by what the checks of the     *)
(* code read from it:                                                      *)
(*   img   how many passes of validateAndCleanContent it takes until       *)
(*         hasInvalidImageContent is false (0: no forbidden pattern)       *)
(*   h2    it contains "##"                                                *)
(*   concl it contains "## conclusion", compared in lower case             *)
(*   word  it contains "conclusion", compared in lower case                *)
(***************************************************************************)
\* Titles in a batch.
NumTitles == 2
\* Sections in an outline: 0..MaxSections.
MaxSections == 1
\* The img of a generated text: 0..MaxImgDepth.
MaxImgDepth == 3

Text(img, h2, concl, word) == [img |-> img, h2 |-> h2, concl |-> concl, word |-> word]

\* The texts the text service may return for a slot.
GeneratedTexts ==
    {Text(d, m[1], m[2], m[3]) :
        d \in 0..MaxImgDepth,
        m \in {<<FALSE, FALSE, FALSE>>, <<TRUE, FALSE, FALSE>>,
               <<TRUE, FALSE, TRUE>>, <<TRUE, TRUE, TRUE>>}}

EmptyBody == Text(0, FALSE, FALSE, FALSE)

\* contentParts.join("\n\n"): a pattern or marker of the whole is one of a part.
Join(a, b) ==
    Text(Max(a.img, b.img), a.h2 \/ b.h2, a.concl \/ b.concl, a.word \/ b.word)

\* generateFallbackIntroduction: "# title", the description and fixed prose.
FallbackIntroduction == Text(0, FALSE, FALSE, FALSE)

\* generateFallbackSection: "## section title", the description, subsections.
FallbackSection == Text(0, TRUE, FALSE, FALSE)

\* generateFallbackConclusion: "## Conclusion", the description and fixed prose.
FallbackConclusion == Text(0, TRUE, TRUE, TRUE)

\* What openRouterService.generateContent gives a stage: the call rejects
\* (withRetry has thrown), or resolves with success false (no content), or
\* resolves with a text.
Rejects == [kind |-> "throw", text |-> EmptyBody]

NoContent == [kind |-> "empty", text |-> EmptyBody]

Content(text) == [kind |-> "text", text |-> text]

SlotResponses == {Rejects, NoContent} \cup {Content(t) : t \in GeneratedTexts}

\* The same for the introduction and the sections, whose texts are drawn
\* without the conclusion markers: only the conclusion text is searched for
\* them before it is pushed.
BodyResponses ==
    {Rejects, NoContent}
    \cup {Content(t) : t \in {g \in GeneratedTexts : ~g.word}}

\* A slot of contentParts: which one, and whether it holds the fallback text.
Slot(name, response) == [slot |-> name, fallback |-> response.kind # "text"]

\* if (!response.success || !response.data) return fallback; return response.data
SlotText(response, fallback) ==
    IF response.kind = "text" THEN response.text ELSE fallback

\* validateAndCleanContent(content): one pass of the stripping transform.
validateAndCleanContent(content) == [content EXCEPT !.img = Max(0, @ - 1)]

hasInvalidImageContent(content) == content.img > 0

\* processContent with a third cleaning pass before it gives up.
processContent_threePasses(content) ==
    LET once == validateAndCleanContent(content)
        twice == validateAndCleanContent(once)
        thrice == validateAndCleanContent(twice)
    IN  IF ~hasInvalidImageContent(once)
        THEN [throws |-> FALSE, content |-> once]
        ELSE IF ~hasInvalidImageContent(twice)
        THEN [throws |-> FALSE, content |-> twice]
        ELSE [throws |-> hasInvalidImageContent(thrice), content |-> thrice]

\* processContent without the throw after the second pass.
processContent_noThrow(content) ==
    LET once == validateAndCleanContent(content)
        twice == validateAndCleanContent(once)
    IN  IF ~hasInvalidImageContent(once)
        THEN [throws |-> FALSE, content |-> once]
        ELSE [throws |-> FALSE, content |-> twice]

\* processContent: clean, and when a pattern is left clean once more; the
\* result, and whether it throws because a pattern is still left.
processContent(content) ==
    LET once == validateAndCleanContent(content)
        twice == validateAndCleanContent(once)
    IN  IF ~hasInvalidImageContent(once)
        THEN [throws |-> FALSE, content |-> once]
        ELSE [throws |-> hasInvalidImageContent(twice), content |-> twice]

\* if (!conclusion.toLowerCase().includes("## conclusion"))
\*   finalConclusion = `## Conclusion\n\n${conclusion}`
FinalConclusion(conclusion) ==
    IF conclusion.concl THEN conclusion
    ELSE Text(conclusion.img, TRUE, TRUE, TRUE)

\* The outline a response parses to: which fields are there (and not empty),
\* and how many sections (-1: no sections field).
Outline(title, introduction, sections, conclusion) ==
    [title |-> title, introduction |-> introduction,
     sections |-> sections, conclusion |-> conclusion]

NoOutline == Outline(FALSE, FALSE, 0 - 1, FALSE)

\* What the outline request gives: a rejection, no content, text that is not
\* JSON, or a JSON outline.
OutlineResponses ==
    {[kind |-> "throw", outline |-> NoOutline],
     [kind |-> "empty", outline |-> NoOutline],
     [kind |-> "unparsable", outline |-> NoOutline]}
    \cup {[kind |-> "json", outline |-> Outline(TRUE, TRUE, n, TRUE)] :
            n \in 0..MaxSections}
    \cup {[kind |-> "json", outline |-> o] :
            o \in {Outline(FALSE, TRUE, 1, TRUE), Outline(TRUE, FALSE, 1, TRUE),
                   Outline(TRUE, TRUE, 0 - 1, TRUE), Outline(TRUE, TRUE, 1, FALSE)}}

\* The check of generateOutline: !outline.title || !outline.introduction ||
\* !outline.sections || !outline.conclusion (an empty array is not falsy).
OutlineHasRequiredFields_noConclusion(outline) ==
    outline.title /\ outline.introduction /\ outline.sections >= 0

OutlineHasRequiredFields(outline) ==
    outline.title /\ outline.introduction /\ outline.sections >= 0
    /\ outline.conclusion

\* generateOutline: the outline, or null.
generateOutline(response) ==
    IF response.kind = "json" /\ OutlineHasRequiredFields(response.outline)
    THEN response.outline
    ELSE NoOutline

\* generateMetadata: it rejects, or resolves with success false, with the
\* parsed metadata, or with the fallback tags and category of a parse failure.
MetadataOutcomes == {"throw", "failed", "parsed", "fallback"}

\* findCoverImage: it rejects, or resolves with success false, or with a URL.
CoverOutcomes == {"throw", "notFound", "found"}

\* findInlineImages: it rejects, or resolves with no image, or with some.
InlineOutcomes == {"throw", "none", "some"}

\* generateImageQueries: the text request rejects, or it resolves to the
\* fallback queries (no content, or content that does not parse), or to the
\* parsed queries.
ImageQueryOutcomes == {"throw", "fallback", "parsed"}

\* let inlineImages = [] before anything was looked for.
NoInlineImages == [length |-> 0, failure |-> "none"]

\* The inline part of generateImages without its try/catch.
InlineImages_noCatch(queries, search) ==
    [throws |-> queries = "throw" \/ search = "throw",
     length |-> IF queries # "throw" /\ search = "some" THEN 1 ELSE 0,
     failure |-> IF queries = "throw" THEN "queries"
                 ELSE IF search = "throw" THEN "search"
                 ELSE IF search = "none" THEN "filtered"
                 ELSE "none"]

\* The inline part of generateImages: generateImageQueries, then
\* findInlineImages, in a try whose catch only logs.  Whether it throws, how
\* many images it leaves in inlineImages, and what went wrong.
InlineImages(queries, search) ==
    [throws |-> FALSE,
     length |-> IF queries # "throw" /\ search = "some" THEN 1 ELSE 0,
     failure |-> IF queries = "throw" THEN "queries"
                 ELSE IF search = "throw" THEN "search"
                 ELSE IF search = "none" THEN "filtered"
                 ELSE "none"]

\* An error as the batch driver's catch sees it: where it was raised (the
\* request that was rejected, or the check that threw), and the title its
\* message names (0: it names none).
ErrorAt(stage, title) == [stage |-> stage, names |-> title]

VARIABLES
    posts,          \* postsToGenerate
    idx,            \* the position of the for loop in posts, from 1
    bpc,            \* "running", "done", "exited" (process.exit(1))
    stage,          \* where the pipeline of posts[idx] is
    outline,        \* const outline of generateBlogContent
    secIdx,         \* the loop variable i of generateContentFromOutline, from 1
    parts,          \* the slots pushed to contentParts, in order
    body,           \* contentParts joined; from processContent on, content
    fullContent,    \* contentParts.join as handed to processContent, kept
                    \* while the title is in the pipeline
    meta,           \* metadataPromise: "none", "pending", or how it resolved
    orphans,        \* metadata promises of aborted titles still pending
    cover,          \* coverImageUrl: "found" or "undefined"
    inline,         \* inlineImages: how many, and what went wrong finding them
    savedFiles,     \* the file paths returned by generateAndSavePost, in
                    \* order: each stands for the title it is made from
    errors,         \* the errors array of generateAllPosts
    log             \* per title: the outline response, whether every
                    \* upstream answer to it was a good one, and how often
                    \* generateAndSavePost was called for it

batchVars ==
    <<posts, idx, bpc, stage, outline, secIdx, parts, body, fullContent, meta, orphans,
      cover, inline, savedFiles, errors, log>>

InitBatch ==
    /\ posts = [i \in 1..NumTitles |-> i]
    /\ idx = 1
    /\ bpc = "running"
    /\ stage = "start"
    /\ outline = NoOutline
    /\ secIdx = 0
    /\ parts = <<>>
    /\ body = EmptyBody
    /\ fullContent = EmptyBody
    /\ meta = "none"
    /\ orphans = 0
    /\ cover = "undefined"
    /\ inline = NoInlineImages
    /\ savedFiles = <<>>
    /\ errors = <<>>
    /\ log = [i \in 1..NumTitles |->
                [outline |-> "none", good |-> TRUE, attempts |-> 0]]

\* The locals of the pipeline are gone when it returns or throws.
LeavePipeline ==
    /\ stage' = "start"
    /\ outline' = NoOutline
    /\ secIdx' = 0
    /\ parts' = <<>>
    /\ body' = EmptyBody
    /\ fullContent' = EmptyBody
    /\ meta' = "none"
    /\ cover' = "undefined"
    /\ inline' = NoInlineImages
    /\ orphans' = IF meta = "pending" THEN orphans + 1 ELSE orphans

\* The catch of the for loop of generateAllPosts: record the error with the
\* title and go on with the next title.
CatchTitleError(error) ==
    /\ errors' = Append(errors, [title |-> posts[idx], error |-> error])
    /\ idx' = idx + 1
    /\ LeavePipeline
    /\ UNCHANGED <<posts, bpc, savedFiles>>

\* Note that an upstream answer to the current title was not a good one.
Noted(isGood) == [log EXCEPT ![idx].good = @ /\ isGood]

InPipeline(s) == bpc = "running" /\ idx <= Len(posts) /\ stage = s

\* The name under which log keeps an outline response.
OutlineCase(response) ==
    IF response.kind # "json" THEN response.kind
    ELSE IF ~response.outline.conclusion THEN "noConclusion"
    ELSE IF OutlineHasRequiredFields(response.outline) THEN "valid"
    ELSE "otherFieldMissing"

\* generateAllPosts takes the next title; generateAndSavePost calls
\* generateBlogContent, which awaits generateOutline and, with an outline,
\* starts generateMetadata without awaiting it.
GenerateOutline ==
    /\ InPipeline("start")
    /\ \E response \in OutlineResponses :
          /\ log' = [log EXCEPT ![idx] =
                        [outline |-> OutlineCase(response),
                         good |-> response.kind = "json"
                                  /\ OutlineHasRequiredFields(response.outline),
                         attempts |-> log[idx].attempts + 1]]
          /\ IF response.kind = "throw"
             THEN CatchTitleError(ErrorAt("outlineRequest", 0))
             ELSE IF generateOutline(response) = NoOutline
             THEN CatchTitleError(ErrorAt("outline", posts[idx]))
             ELSE /\ outline' = generateOutline(response)
                  /\ meta' = "pending"
                  /\ stage' = "introduction"
                  /\ UNCHANGED <<posts, idx, bpc, secIdx, parts, body, fullContent, orphans,
                                 cover, inline, savedFiles, errors>>

\* Is an expansion response a good one: a text without forbidden patterns.
GoodText(response) == response.kind = "text" /\ response.text.img = 0

\* generateIntroduction and contentParts.push(introduction).
ExpandIntroduction ==
    /\ InPipeline("introduction")
    /\ \E response \in BodyResponses :
          /\ log' = Noted(GoodText(response))
          /\ IF response.kind = "throw"
             THEN CatchTitleError(ErrorAt("introduction", 0))
             ELSE /\ parts' = Append(parts, Slot("introduction", response))
                  /\ body' = Join(body, SlotText(response, FallbackIntroduction))
                  /\ UNCHANGED fullContent
                  /\ secIdx' = 1
                  /\ stage' = IF outline.sections >= 1 THEN "section"
                              ELSE "conclusion"
                  /\ UNCHANGED <<posts, idx, bpc, outline, meta, orphans, cover,
                                 inline, savedFiles, errors>>

\* One round of the section loop: generateSection and contentParts.push.
ExpandSection ==
    /\ InPipeline("section")
    /\ \E response \in BodyResponses :
          /\ log' = Noted(GoodText(response))
          /\ IF response.kind = "throw"
             THEN CatchTitleError(ErrorAt("section", 0))
             ELSE /\ parts' = Append(parts, Slot("section", response))
                  /\ body' = Join(body, SlotText(response, FallbackSection))
                  /\ UNCHANGED fullContent
                  /\ secIdx' = secIdx + 1
                  /\ stage' = IF secIdx < outline.sections THEN "section"
                              ELSE "conclusion"
                  /\ UNCHANGED <<posts, idx, bpc, outline, meta, orphans, cover,
                                 inline, savedFiles, errors>>

\* generateConclusion, the header check, contentParts.push, the join and
\* processContent: the rest of generateContentFromOutline.
ExpandConclusion ==
    /\ InPipeline("conclusion")
    /\ \E response \in SlotResponses :
          LET conclusion == SlotText(response, FallbackConclusion)
              joined == Join(body, FinalConclusion(conclusion))
              processed == processContent(joined)
          IN  /\ log' = Noted(GoodText(response))
              /\ IF response.kind = "throw"
                 THEN CatchTitleError(ErrorAt("conclusion", 0))
                 ELSE IF processed.throws
                 THEN CatchTitleError(ErrorAt("content", 0))
                 ELSE /\ parts' = Append(parts, Slot("conclusion", response))
                      /\ body' = processed.content
                      /\ fullContent' = joined
                      /\ stage' = "metadata"
                      /\ UNCHANGED <<posts, idx, bpc, outline, secIdx, meta,
                                     orphans, cover, inline, savedFiles, errors>>

\* The metadata request of the current title settles.  While
\* generateContentFromOutline is still awaited nothing handles a rejection of
\* metadataPromise: the unhandledRejection handler of index.ts ends the
\* process.  Once generateBlogContent is at await metadataPromise the
\* rejection is thrown there and reaches the catch of the batch driver.
MetadataSettles ==
    /\ bpc = "running"
    /\ idx <= Len(posts)
    /\ meta = "pending"
    /\ \E outcome \in MetadataOutcomes :
          /\ log' = Noted(outcome = "parsed")
          /\ IF outcome # "throw"
             THEN /\ meta' = outcome
                  /\ UNCHANGED <<posts, idx, bpc, stage, outline, secIdx, parts,
                                 body, fullContent, orphans, cover, inline, savedFiles, errors>>
             ELSE IF stage = "metadata"
             THEN CatchTitleError(ErrorAt("metadata", 0))
             ELSE /\ bpc' = "exited"
                  /\ meta' = "rejected"
                  /\ UNCHANGED <<posts, idx, stage, outline, secIdx, parts, body, fullContent,
                                 orphans, cover, inline, savedFiles, errors>>

\* const metadata = await metadataPromise, with the promise resolved.
AwaitMetadata ==
    /\ InPipeline("metadata")
    /\ meta \in {"failed", "parsed", "fallback"}
    /\ stage' = "images"
    /\ UNCHANGED <<posts, idx, bpc, outline, secIdx, parts, body, fullContent, meta, orphans,
                   cover, inline, savedFiles, errors, log>>

\* generateImages: findCoverImage is awaited outside any try, the inline
\* images inside one.
GenerateImages ==
    /\ InPipeline("images")
    /\ \E c \in CoverOutcomes, q \in ImageQueryOutcomes, i \in InlineOutcomes :
          LET found == InlineImages(q, i)
          IN  /\ log' = Noted(c = "found" /\ q = "parsed" /\ i = "some")
              /\ IF c = "throw"
                 THEN CatchTitleError(ErrorAt("cover", 0))
                 ELSE IF found.throws
                 THEN CatchTitleError(ErrorAt("inline", 0))
                 ELSE /\ cover' = IF c = "found" THEN "found" ELSE "undefined"
                      /\ inline' = [length |-> found.length,
                                    failure |-> found.failure]
                      /\ stage' = "validate"
                      /\ UNCHANGED <<posts, idx, bpc, outline, secIdx, parts,
                                     body, fullContent, meta, orphans, savedFiles, errors>>

\* BlogValidator.validateContent: does it throw.  (validateImages passes: a
\* cover or inline URL comes from a photo that passed isValidPexelsPhoto.)
ValidateContentThrows(content) ==
    \/ hasInvalidImageContent(content)
    \/ ~content.h2
    \/ ~content.word

\* tags and category of the blog post.
PostMetadata(m) == IF m = "failed" THEN "default" ELSE m

\* The end of generateBlogContent: the post is put together, validateBlogPost
\* checks it, and the post is returned to generateAndSavePost.
ValidateBlogPost ==
    /\ InPipeline("validate")
    /\ IF ValidateContentThrows(body)
       THEN CatchTitleError(ErrorAt("validation", 0))
       ELSE /\ stage' = "save"
            /\ UNCHANGED <<posts, idx, bpc, outline, secIdx, parts, body, fullContent, meta,
                           orphans, cover, inline, savedFiles, errors>>
    /\ UNCHANGED log

\* validateImageUrls of BlogGenerator: it reads post.coverImageUrl.includes,
\* which throws when there is no cover.
ValidateImageUrlsThrows_never(coverImageUrl) == FALSE

ValidateImageUrlsThrows(coverImageUrl) == coverImageUrl = "undefined"

\* generateAndSavePost has the post: validateImageUrls, then savePostToMarkdown
\* is called with it.
PreSaveValidate ==
    /\ InPipeline("save")
    /\ IF ValidateImageUrlsThrows(cover)
       THEN CatchTitleError(ErrorAt("imageUrls", 0))
       ELSE /\ stage' = "write"
            /\ UNCHANGED <<posts, idx, bpc, outline, secIdx, parts, body, fullContent, meta,
                           orphans, cover, inline, savedFiles, errors>>
    /\ UNCHANGED log

\* await savePostToMarkdown(post) settles: the file path is returned to the
\* loop of generateAllPosts, or it throws because the file cannot be written.
SavePost ==
    /\ InPipeline("write")
    /\ \E written \in BOOLEAN :
          /\ log' = Noted(written)
          /\ IF ~written
             THEN CatchTitleError(ErrorAt("save", 0))
             ELSE /\ savedFiles' = Append(savedFiles, posts[idx])
                  /\ idx' = idx + 1
                  /\ LeavePipeline
                  /\ UNCHANGED <<posts, bpc, errors>>

\* The metadata request of a title that was aborted settles: nothing awaits
\* it, so a rejection ends the process.
OrphanSettles ==
    /\ bpc = "running"
    /\ orphans > 0
    /\ \E outcome \in MetadataOutcomes :
          /\ orphans' = orphans - 1
          /\ bpc' = IF outcome = "throw" THEN "exited" ELSE bpc
    /\ UNCHANGED <<posts, idx, stage, outline, secIdx, parts, body, fullContent, meta, cover,
                   inline, savedFiles, errors, log>>

\* The loop of generateAllPosts is over: the summary is logged.
Finish ==
    /\ bpc = "running"
    /\ idx > Len(posts)
    /\ bpc' = "done"
    /\ UNCHANGED <<posts, idx, stage, outline, secIdx, parts, body, fullContent, meta,
                   orphans, cover, inline, savedFiles, errors, log>>

(***************************************************************************)
(* The image search of PexelsService.                                      *)
(*                                                                         *)
(* A URL is its scheme, its host and its path.  What the code asks of a    *)
(* URL string is whether it starts with "https://" and whether it has      *)
(* "pexels.com" somewhere in it.                                           *)
(***************************************************************************)
\* Photos in one search result: 0..MaxCandidates.
MaxCandidates == 2
\* Queries given to findInlineImages: 0..MaxQueries.
MaxQueries == 2
\* imagesPerQuery: 1..MaxPerQuery.
MaxPerQuery == 2

Url(scheme, host, path) == [scheme |-> scheme, host |-> host, path |-> path]

\* A field that is not there (undefined), which is falsy.
NoUrl == Url("none", "none", "none")

\* The hosts of the model: the image host and the site of the image source, a
\* host that only has the source's name in it, and a stranger.
Hosts == {"images.pexels.com", "www.pexels.com", "pexels.com.example.io",
          "example.com"}

\* The paths of the model: a plain one, and one with the source's name in it.
Paths == {"/photos/1.jpeg", "/pexels.com/1.jpeg"}

\* url.startsWith("https://")
StartsWithHttps(url) == url.scheme = "https"

\* url.includes("pexels.com"): the text is in the host or in the path.
IncludesPexels(url) ==
    \/ url.host \in {"images.pexels.com", "www.pexels.com", "pexels.com.example.io"}
    \/ url.path = "/pexels.com/1.jpeg"

\* The alt texts of the model: none, one without an excluded keyword, and two
\* with one ("app" and "dashboard"; "logo" in upper case).
AltTexts == {"", "Team meeting in a bright office", "App dashboard on a laptop",
             "LOGO on a wall"}

\* excludedKeywords.some(keyword => altText.includes(keyword.toLowerCase()))
\* with altText = photo.alt.toLowerCase().
HasExcludedContent(alt) ==
    alt \in {"App dashboard on a laptop", "LOGO on a wall"}

\* A photo of a search result.
Photo(photographer, large, medium, photographer_url, url, alt) ==
    [photographer |-> photographer,
     src |-> [large |-> large, medium |-> medium],
     photographer_url |-> photographer_url,
     url |-> url,
     alt |-> alt]

\* isStockPhotoContent without the keyword test.
isStockPhotoContent_any(photo) == TRUE

\* isStockPhotoContent: no alt text, or none of the excluded keywords in it.
isStockPhotoContent(photo) ==
    IF photo.alt = "" THEN TRUE ELSE ~HasExcludedContent(photo.alt)

\* isValidPexelsPhoto: the fields are there, and src.large is an https URL
\* with "pexels.com" in it.
isValidPexelsPhoto(photo) ==
    /\ photo.src.large # NoUrl
    /\ photo.src.medium # NoUrl
    /\ photo.photographer # ""
    /\ photo.photographer_url # NoUrl
    /\ photo.url # NoUrl
    /\ IncludesPexels(photo.src.large)
    /\ StartsWithHttps(photo.src.large)

\* result.photos.filter(photo => isValidPexelsPhoto(photo) &&
\*                               isStockPhotoContent(photo))
FilterPhotos(photos) ==
    SelectSeq(photos, LAMBDA photo : isValidPexelsPhoto(photo)
                                     /\ isStockPhotoContent(photo))

\* The operation of findCoverImage, given the photos the search returned.
findCoverImage(photos) ==
    LET filteredPhotos == FilterPhotos(photos)
    IN  IF Len(photos) > 0 /\ Len(filteredPhotos) > 0
        THEN [success |-> TRUE, data |-> filteredPhotos[1].src.large]
        ELSE [success |-> FALSE, data |-> NoUrl]

\* convertToInlineImage (of a photo that isValidPexelsPhoto).
convertToInlineImage(photo) ==
    [url |-> photo.src.medium,
     alt |-> IF photo.alt = "" THEN "Stock photo" ELSE photo.alt,
     photographer |-> photo.photographer,
     photographerUrl |-> photo.photographer_url,
     pexelsUrl |-> photo.url]

\* validPhotos.slice(0, imagesPerQuery) without the limit.
SelectPhotos_all(validPhotos, imagesPerQuery) == validPhotos

\* validPhotos.slice(0, imagesPerQuery)
SelectPhotos(validPhotos, imagesPerQuery) ==
    SubSeq(validPhotos, 1, Min(imagesPerQuery, Len(validPhotos)))

\* One round of the loop of findInlineImages: the images a query adds.
ImagesOfQuery(photos, imagesPerQuery) ==
    LET selectedPhotos == SelectPhotos(FilterPhotos(photos), imagesPerQuery)
    IN  [k \in 1..Len(selectedPhotos) |-> convertToInlineImage(selectedPhotos[k])]

RECURSIVE AllImages(_, _)
\* allImages after the loop over the queries: results[q] is what the search
\* returned for query q.
AllImages(results, imagesPerQuery) ==
    IF results = <<>> THEN <<>>
    ELSE ImagesOfQuery(Head(results), imagesPerQuery)
         \o AllImages(Tail(results), imagesPerQuery)

\* The operation of findInlineImages, given what each search returned.
findInlineImages(results, imagesPerQuery) ==
    [success |-> TRUE, data |-> AllImages(results, imagesPerQuery)]

\* The source's URLs of the model: an image, a photographer's profile, a
\* photo's page.
PexelsImage == Url("https", "images.pexels.com", "/photos/1.jpeg")

PexelsImage2 == Url("https", "images.pexels.com", "/pexels.com/1.jpeg")

PexelsPage == Url("https", "www.pexels.com", "/photos/1.jpeg")

\* The photos a search may return: two that pass both filters (one of them
\* without alt text), one with an excluded keyword in its alt text, and one
\* whose src.large is not an https URL.
SearchPhotos ==
    {Photo("Ann", PexelsImage, PexelsImage, PexelsPage, PexelsPage,
           "Team meeting in a bright office"),
     Photo("Bob", PexelsImage2, PexelsImage2, PexelsPage, PexelsPage, ""),
     Photo("Cyd", PexelsPage, PexelsPage, PexelsPage, PexelsPage,
           "App dashboard on a laptop"),
     Photo("Dee", Url("http", "images.pexels.com", "/photos/1.jpeg"),
           PexelsImage, PexelsPage, PexelsPage,
           "Team meeting in a bright office")}

\* The sequences of at most n different elements of S.
DistinctSeqs(S, n) ==
    {q \in UNION {[1..k -> S] : k \in 0..n} :
        \A i, j \in 1..Len(q) : i # j => q[i] # q[j]}

\* result.photos of one search.
SearchResults == DistinctSeqs(SearchPhotos, MaxCandidates)

\* What the searches of findInlineImages return, query by query.
QuerySearchResults == UNION {[1..k -> SearchResults] : k \in 0..MaxQueries}

VARIABLES
    ipc,              \* what was called: "idle", "cover", "inline"; and where
                      \* the images of a post are: "assembled", "validated",
                      \* "handed" (to savePostToMarkdown), "rejected"
    coverSearch,      \* result.photos of the search of findCoverImage
    coverResponse,    \* what findCoverImage resolved with
    inlineSearch,     \* result.photos of each search of findInlineImages
    imagesPerQuery,   \* the argument of findInlineImages
    inlineResponse,   \* what findInlineImages resolved with
    post              \* coverImageUrl and inlineImages of the blog post

imageVars ==
    <<ipc, coverSearch, coverResponse, inlineSearch, imagesPerQuery,
      inlineResponse, post>>

NoPost == [coverImageUrl |-> NoUrl, inlineImages |-> <<>>]

IdleImages ==
    /\ ipc = "idle"
    /\ coverSearch = <<>>
    /\ coverResponse = [success |-> FALSE, data |-> NoUrl]
    /\ inlineSearch = <<>>
    /\ imagesPerQuery = 1
    /\ inlineResponse = [success |-> TRUE, data |-> <<>>]
    /\ post = NoPost

\* findCoverImage is called and the search answers.
CallFindCoverImage ==
    /\ ipc = "idle"
    /\ \E photos \in SearchResults :
          /\ coverSearch' = photos
          /\ coverResponse' = findCoverImage(photos)
    /\ ipc' = "cover"
    /\ UNCHANGED <<inlineSearch, imagesPerQuery, inlineResponse, post>>

\* findInlineImages is called and every search answers.
CallFindInlineImages ==
    /\ ipc = "idle"
    /\ \E results \in QuerySearchResults, n \in 1..MaxPerQuery :
          /\ inlineSearch' = results
          /\ imagesPerQuery' = n
          /\ inlineResponse' = findInlineImages(results, n)
    /\ ipc' = "inline"
    /\ UNCHANGED <<coverSearch, coverResponse, post>>

\* The values a URL field of a photo may have: none, or any scheme, host and
\* path of the model.
UrlCases ==
    {NoUrl} \cup {Url(scheme, host, path) :
                    scheme \in {"https", "http"}, host \in Hosts, path \in Paths}

\* The photos whose URL fields are looked at: a photo of the source, and that
\* photo with one of its URL fields changed.
UrlPhotos ==
    {Photo("Ann", PexelsImage, PexelsImage, PexelsPage, PexelsPage, "")}
    \cup {Photo("Ann", u, PexelsImage, PexelsPage, PexelsPage, "") : u \in UrlCases}
    \cup {Photo("Ann", PexelsImage, u, PexelsPage, PexelsPage, "") : u \in UrlCases}
    \cup {Photo("Ann", PexelsImage, PexelsImage, u, PexelsPage, "") : u \in UrlCases}
    \cup {Photo("Ann", PexelsImage, PexelsImage, PexelsPage, u, "") : u \in UrlCases}

UrlSearchResults == DistinctSeqs(UrlPhotos, MaxCandidates)

\* BlogValidator.validateImages: does it throw.
ValidateImagesThrows(p) ==
    \/ p.coverImageUrl # NoUrl /\ ~IncludesPexels(p.coverImageUrl)
    \/ \E k \in 1..Len(p.inlineImages) :
          \/ ~IncludesPexels(p.inlineImages[k].url)
          \/ ~IncludesPexels(p.inlineImages[k].pexelsUrl)

\* validateImageUrls of BlogGenerator: does it throw (without a cover
\* post.coverImageUrl.includes is a TypeError).
PostImageUrlsThrow(p) ==
    \/ p.coverImageUrl = NoUrl
    \/ ~IncludesPexels(p.coverImageUrl)
    \/ ~StartsWithHttps(p.coverImageUrl)
    \/ \E k \in 1..Len(p.inlineImages) :
          \/ ~IncludesPexels(p.inlineImages[k].url)
          \/ ~StartsWithHttps(p.inlineImages[k].url)
          \/ ~IncludesPexels(p.inlineImages[k].pexelsUrl)
          \/ ~StartsWithHttps(p.inlineImages[k].pexelsUrl)

\* generateImages: findCoverImage has resolved.
AttachCover ==
    /\ ipc = "idle"
    /\ \E photos \in UrlSearchResults :
          LET coverImageResponse == findCoverImage(photos)
          IN  post' = [post EXCEPT !.coverImageUrl =
                          IF coverImageResponse.success
                          THEN coverImageResponse.data ELSE NoUrl]
    /\ ipc' = "coverSet"
    /\ UNCHANGED <<coverSearch, coverResponse, inlineSearch, imagesPerQuery,
                   inlineResponse>>

\* generateImages: findInlineImages has resolved (one query).
AttachInlineImages ==
    /\ ipc = "coverSet"
    /\ \E photos \in UrlSearchResults, n \in 1..MaxPerQuery :
          post' = [post EXCEPT !.inlineImages =
                      findInlineImages(<<photos>>, n).data]
    /\ ipc' = "assembled"
    /\ UNCHANGED <<coverSearch, coverResponse, inlineSearch, imagesPerQuery,
                   inlineResponse>>

\* validateBlogPost of BlogValidator, as far as the images go.
ValidatePostImages ==
    /\ ipc = "assembled"
    /\ ipc' = IF ValidateImagesThrows(post) THEN "rejected" ELSE "validated"
    /\ UNCHANGED <<coverSearch, coverResponse, inlineSearch, imagesPerQuery,
                   inlineResponse, post>>

\* generateAndSavePost: validateImageUrls, then savePostToMarkdown is called.
PreSaveImageUrls ==
    /\ ipc = "validated"
    /\ ipc' = IF PostImageUrlsThrow(post) THEN "rejected" ELSE "handed"
    /\ UNCHANGED <<coverSearch, coverResponse, inlineSearch, imagesPerQuery,
                   inlineResponse, post>>

(***************************************************************************)
(* BlogValidator.validateContent on a body given line by line.  A line is  *)
(* described by what the checks read from it.                              *)
(***************************************************************************)
\* Lines in a body: 0..MaxLines.
MaxLines == 2

\* Headers that name a conclusion section: "## Conclusion", "## Final
\* Thoughts", "## Wrapping Up", "## Summary", "## Key Takeaways".
ConclusionHeaders ==
    {"## conclusion", "## final thoughts", "## wrapping up", "## summary",
     "## key takeaways"}

\* The lines: prose, a line of white space, a section header ("## ..."), a
\* conclusion header, prose with the word "conclusion" in it ("In conclusion,
\* ..."), a line with an embedded image reference.
LineKinds ==
    {"prose", "blank", "## section", "in conclusion", "![image](url)"}
    \cup ConclusionHeaders

Contents == UNION {[1..n -> LineKinds] : n \in 0..MaxLines}

\* content.includes(needle), the content compared in lower case: the lines
\* in which each needle of validateContent occurs.
Includes(content, needle) ==
    \E k \in 1..Len(content) :
        CASE needle = "##" -> content[k] \in ConclusionHeaders \cup {"## section"}
          [] needle = "conclusion" -> content[k] \in {"## conclusion", "in conclusion"}
          [] OTHER -> content[k] = needle

\* hasInvalidImageContent(post.content)
HasImageReference(content) == Includes(content, "![image](url)")

\* !post.content || post.content.trim().length === 0
IsBlank(content) == \A k \in 1..Len(content) : content[k] = "blank"

\* const hasConclusion = ...
hasConclusion(content) ==
    \/ Includes(content, "## conclusion")
    \/ Includes(content, "conclusion")
    \/ Includes(content, "## final thoughts")
    \/ Includes(content, "## wrapping up")
    \/ Includes(content, "## summary")
    \/ Includes(content, "## key takeaways")

\* validateContent(post): the message of the error it throws, or "ok".
validateContent(content) ==
    IF HasImageReference(content)
    THEN "Blog post content contains invalid image references"
    ELSE IF IsBlank(content)
    THEN "Blog post content cannot be empty"
    ELSE IF ~Includes(content, "##")
    THEN "Blog post must have proper section headers (##)"
    ELSE IF ~hasConclusion(content)
    THEN "Blog post must have a conclusion section"
    ELSE "ok"

VARIABLES
    vpc,            \* "call" before validateContent, "returned" after it
    content,        \* post.content
    verdict         \* what validateContent did: "none" before the call

validateVars == <<vpc, content, verdict>>

IdleValidate ==
    /\ vpc = "returned"
    /\ content = <<>>
    /\ verdict = "none"

InitValidate ==
    /\ vpc = "call"
    /\ content \in Contents
    /\ verdict = "none"

CallValidateContent ==
    /\ vpc = "call"
    /\ vpc' = "returned"
    /\ verdict' = validateContent(content)
    /\ UNCHANGED content

(***************************************************************************)
(* Duplicate titles (utils/fileUtils.ts).  A title is the sequence of its  *)
(* characters.                                                             *)
(***************************************************************************)
\* Titles handed to filterDuplicateTitles: 0..MaxNewTitles.
MaxNewTitles == 2

UpperCaseLetters ==
    <<"A", "B", "C", "D", "E", "F", "G", "H", "I", "J", "K", "L", "M", "N",
      "O", "P", "Q", "R", "S", "T", "U", "V", "W", "X", "Y", "Z">>

LowerCaseLetters ==
    <<"a", "b", "c", "d", "e", "f", "g", "h", "i", "j", "k", "l", "m", "n",
      "o", "p", "q", "r", "s", "t", "u", "v", "w", "x", "y", "z">>

Range(seq) == {seq[k] : k \in DOMAIN seq}

\* String.prototype.toLowerCase, character by character.
ToLowerCase(c) ==
    IF c \in Range(UpperCaseLetters)
    THEN LowerCaseLetters[CHOOSE k \in DOMAIN UpperCaseLetters : UpperCaseLetters[k] = c]
    ELSE c

\* \w: [A-Za-z0-9_]
IsWordCharacter(c) ==
    c \in Range(UpperCaseLetters) \cup Range(LowerCaseLetters)
           \cup Range(Digits) \cup {"_"}

\* \s
IsWhiteSpace(c) == c \in {" ", "\t", "\n"}

\* .toLowerCase()
LowerCased(str) == [k \in DOMAIN str |-> ToLowerCase(str[k])]

\* .replace(/[^\w\s]/g, "")
WithoutPunctuation(str) ==
    SelectSeq(str, LAMBDA c : IsWordCharacter(c) \/ IsWhiteSpace(c))

\* .replace(/\s+/g, " "): every run of white space becomes one space.
RECURSIVE CollapseWhiteSpace(_)
CollapseWhiteSpace(str) ==
    IF str = <<>> THEN <<>>
    ELSE IF ~IsWhiteSpace(Head(str)) THEN <<Head(str)>> \o CollapseWhiteSpace(Tail(str))
    ELSE IF Len(str) > 1 /\ IsWhiteSpace(str[2]) THEN CollapseWhiteSpace(Tail(str))
    ELSE <<" ">> \o CollapseWhiteSpace(Tail(str))

\* .trim()
RECURSIVE Trim(_)
Trim(str) ==
    IF str = <<>> THEN <<>>
    ELSE IF IsWhiteSpace(Head(str)) THEN Trim(Tail(str))
    ELSE IF IsWhiteSpace(str[Len(str)]) THEN Trim(SubSeq(str, 1, Len(str) - 1))
    ELSE str

normalizeTitle(title) ==
    Trim(CollapseWhiteSpace(WithoutPunctuation(LowerCased(title))))

\* .replace(/\s+/g, "-"): every run of white space becomes one hyphen.
RECURSIVE HyphenateWhiteSpace(_)
HyphenateWhiteSpace(str) ==
    IF str = <<>> THEN <<>>
    ELSE IF ~IsWhiteSpace(Head(str)) THEN <<Head(str)>> \o HyphenateWhiteSpace(Tail(str))
    ELSE IF Len(str) > 1 /\ IsWhiteSpace(str[2]) THEN HyphenateWhiteSpace(Tail(str))
    ELSE <<"-">> \o HyphenateWhiteSpace(Tail(str))

\* .replace(/[^\w-]+/g, "")
OnlyWordCharactersAndHyphens(str) ==
    SelectSeq(str, LAMBDA c : IsWordCharacter(c) \/ c = "-")

\* stringUtils.ts: slugify
slugify(text) ==
    OnlyWordCharactersAndHyphens(HyphenateWhiteSpace(LowerCased(text)))

\* savePostToMarkdown: fileName, the last part of filePath (the directory
\* is config.postsDirectory for every post).
FileName(title) == slugify(title) \o <<".", "m", "d">>

\* str.split(" "): the pieces between the spaces; "" gives [""].
RECURSIVE Split(_)
Split(str) ==
    IF \A k \in DOMAIN str : str[k] # " " THEN <<str>>
    ELSE LET at == CHOOSE k \in DOMAIN str :
                       str[k] = " " /\ \A j \in 1..(k - 1) : str[j] # " "
         IN  <<SubSeq(str, 1, at - 1)>> \o Split(SubSeq(str, at + 1, Len(str)))

\* normalized.split(" ").filter((word) => word.length > 2)
LongWords(normalized) == SelectSeq(Split(normalized), LAMBDA word : Len(word) > 2)

\* The callback of existingTitles.some in isDuplicateTitle.  similarity >=
\* 0.8 is compared as 5 * common >= 4 * max: the quotient of two small
\* integers is the double 0.8 or above exactly when the fraction is.
IsSimilarTo(normalizedNew, existing) ==
    LET normalizedExisting == normalizeTitle(existing)
        newWords == LongWords(normalizedNew)
        existingWords == LongWords(normalizedExisting)
        commonWords == SelectSeq(newWords, LAMBDA word : word \in Range(existingWords))
    IN  IF normalizedNew = normalizedExisting THEN TRUE
        ELSE IF Len(newWords) = 0 \/ Len(existingWords) = 0 THEN FALSE
        ELSE 5 * Len(commonWords) >= 4 * Max(Len(newWords), Len(existingWords))

isDuplicateTitle(newTitle, existingTitles) ==
    LET normalizedNew == normalizeTitle(newTitle)
    IN  \E k \in DOMAIN existingTitles : IsSimilarTo(normalizedNew, existingTitles[k])

\* filterDuplicateTitles that also drops a title proposed twice.
RECURSIVE filterDuplicateTitles_unique(_, _)
filterDuplicateTitles_unique(newTitles, existingTitles) ==
    IF newTitles = <<>> THEN <<>>
    ELSE LET last == newTitles[Len(newTitles)]
             front == SubSeq(newTitles, 1, Len(newTitles) - 1)
             rest == filterDuplicateTitles_unique(front, existingTitles)
         IN  IF isDuplicateTitle(last, existingTitles) \/ last \in Range(front)
             THEN rest
             ELSE Append(rest, last)

\* newTitles.filter((title) => !isDuplicateTitle(title, existingTitles))
filterDuplicateTitles(newTitles, existingTitles) ==
    SelectSeq(newTitles, LAMBDA title : ~isDuplicateTitle(title, existingTitles))

\* "The Future of Sustainable Packaging"
FuturePackaging ==
    <<"T", "h", "e", " ", "F", "u", "t", "u", "r", "e", " ", "o", "f", " ",
      "S", "u", "s", "t", "a", "i", "n", "a", "b", "l", "e", " ", "P", "a",
      "c", "k", "a", "g", "i", "n", "g">>

\* "Future of Sustainable Packaging Solutions"
FuturePackagingSolutions ==
    <<"F", "u", "t", "u", "r", "e", " ", "o", "f", " ", "S", "u", "s", "t",
      "a", "i", "n", "a", "b", "l", "e", " ", "P", "a", "c", "k", "a", "g",
      "i", "n", "g", " ", "S", "o", "l", "u", "t", "i", "o", "n", "s">>

\* "The History of Sustainable Packaging"
HistoryPackaging ==
    <<"T", "h", "e", " ", "H", "i", "s", "t", "o", "r", "y", " ", "o", "f",
      " ", "S", "u", "s", "t", "a", "i", "n", "a", "b", "l", "e", " ", "P",
      "a", "c", "k", "a", "g", "i", "n", "g">>

\* "The future of sustainable packaging"
FuturePackagingLowerCase ==
    <<"T", "h", "e", " ", "f", "u", "t", "u", "r", "e", " ", "o", "f", " ",
      "s", "u", "s", "t", "a", "i", "n", "a", "b", "l", "e", " ", "p", "a",
      "c", "k", "a", "g", "i", "n", "g">>

\* " THE FUTURE,  of Sustainable: Packaging! "
FuturePackagingSpaced ==
    <<" ", "T", "H", "E", " ", "F", "U", "T", "U", "R", "E", ",", " ", " ",
      "o", "f", " ", "S", "u", "s", "t", "a", "i", "n", "a", "b", "l", "e",
      ":", " ", "P", "a", "c", "k", "a", "g", "i", "n", "g", "!", " ">>

\* "The Future of Sustainable Packaging_"
FuturePackagingUnderscore ==
    <<"T", "h", "e", " ", "F", "u", "t", "u", "r", "e", " ", "o", "f", " ",
      "S", "u", "s", "t", "a", "i", "n", "a", "b", "l", "e", " ", "P", "a",
      "c", "k", "a", "g", "i", "n", "g", "_">>

\* "Sustainable Packaging Case Studies"
PackagingCaseStudies ==
    <<"S", "u", "s", "t", "a", "i", "n", "a", "b", "l", "e", " ", "P", "a",
      "c", "k", "a", "g", "i", "n", "g", " ", "C", "a", "s", "e", " ", "S",
      "t", "u", "d", "i", "e", "s">>

\* "The Future of Sustainable Packaging Design"
FuturePackagingDesign ==
    <<"T", "h", "e", " ", "F", "u", "t", "u", "r", "e", " ", "o", "f", " ",
      "S", "u", "s", "t", "a", "i", "n", "a", "b", "l", "e", " ", "P", "a",
      "c", "k", "a", "g", "i", "n", "g", " ", "D", "e", "s", "i", "g", "n">>

\* "The Future of Sustainable Packaging Trends"
FuturePackagingTrends ==
    <<"T", "h", "e", " ", "F", "u", "t", "u", "r", "e", " ", "o", "f", " ",
      "S", "u", "s", "t", "a", "i", "n", "a", "b", "l", "e", " ", "P", "a",
      "c", "k", "a", "g", "i", "n", "g", " ", "T", "r", "e", "n", "d", "s">>

\* "Packaging Design and Strategy"
PackagingDesignStrategy ==
    <<"P", "a", "c", "k", "a", "g", "i", "n", "g", " ", "D", "e", "s", "i",
      "g", "n", " ", "a", "n", "d", " ", "S", "t", "r", "a", "t", "e", "g",
      "y">>

\* "Packaging Design and Packaging Trends"
PackagingDesignPackagingTrends ==
    <<"P", "a", "c", "k", "a", "g", "i", "n", "g", " ", "D", "e", "s", "i",
      "g", "n", " ", "a", "n", "d", " ", "P", "a", "c", "k", "a", "g", "i",
      "n", "g", " ", "T", "r", "e", "n", "d", "s">>

\* "AI or ML"
AiOrMl ==
    <<"A", "I", " ", "o", "r", " ", "M", "L">>

\* "Go to it"
GoToIt ==
    <<"G", "o", " ", "t", "o", " ", "i", "t">>

\* The titles the text service may propose.
ProposedTitles ==
    {FuturePackaging, FuturePackagingSolutions, HistoryPackaging,
     FuturePackagingLowerCase, FuturePackagingSpaced, FuturePackagingUnderscore,
     PackagingCaseStudies, FuturePackagingTrends, PackagingDesignPackagingTrends,
     AiOrMl, GoToIt}

\* The titles found in the posts directory.
ExistingTitleLists ==
    {<<>>, <<FuturePackaging>>, <<PackagingDesignStrategy, FuturePackagingDesign>>,
     <<AiOrMl, FuturePackaging>>}

VARIABLES
    tpc,            \* "call" before filterDuplicateTitles, "returned" after it
    newTitles,      \* response.data of generateBlogIdeas
    existingTitles, \* the titles of the posts already written
    isDuplicate,    \* what isDuplicateTitle returned for each of newTitles
    filtered,       \* const filtered
    duplicatesCount, \* const duplicatesCount; undefined before the call
    ideaIdx,        \* the place in postsToGenerate of the loop of generateAllPosts
    writtenFiles    \* the file names fs.writeFile was called with, in order

titleVars ==
    <<tpc, newTitles, existingTitles, isDuplicate, filtered, duplicatesCount,
      ideaIdx, writtenFiles>>

IdleTitles ==
    /\ tpc = "returned"
    /\ newTitles = <<>>
    /\ existingTitles = <<>>
    /\ isDuplicate = <<>>
    /\ filtered = <<>>
    /\ duplicatesCount = undefined
    /\ ideaIdx = 1
    /\ writtenFiles = <<>>

InitTitles ==
    /\ tpc = "call"
    /\ newTitles \in UNION {[1..n -> ProposedTitles] : n \in 0..MaxNewTitles}
    /\ existingTitles \in ExistingTitleLists
    /\ isDuplicate = <<>>
    /\ filtered = <<>>
    /\ duplicatesCount = undefined
    /\ ideaIdx = 1
    /\ writtenFiles = <<>>

\* generateBlogIdeas: filterDuplicateTitles(response.data, existingTitles)
CallFilterDuplicateTitles ==
    /\ tpc = "call"
    /\ tpc' = "returned"
    /\ isDuplicate' = [k \in DOMAIN newTitles |->
                         isDuplicateTitle(newTitles[k], existingTitles)]
    /\ filtered' = filterDuplicateTitles(newTitles, existingTitles)
    /\ duplicatesCount' = Len(newTitles) - Len(filtered')
    /\ UNCHANGED <<newTitles, existingTitles, ideaIdx, writtenFiles>>

\* One turn of the loop of generateAllPosts (no --max-posts: postsToGenerate
\* is the filtered list) for a title whose post is generated and validated:
\* savePostToMarkdown writes the post to the file named after the slug of
\* the title.
SavePostToMarkdown ==
    /\ tpc = "returned"
    /\ ideaIdx <= Len(filtered)
    /\ writtenFiles' = Append(writtenFiles, FileName(filtered[ideaIdx]))
    /\ ideaIdx' = ideaIdx + 1
    /\ UNCHANGED <<tpc, newTitles, existingTitles, isDuplicate, filtered,
                   duplicatesCount>>

\* One turn of that loop for a title whose generation throws: nothing is
\* written.
PostFails ==
    /\ tpc = "returned"
    /\ ideaIdx <= Len(filtered)
    /\ ideaIdx' = ideaIdx + 1
    /\ UNCHANGED <<tpc, newTitles, existingTitles, isDuplicate, filtered,
                   duplicatesCount, writtenFiles>>

(***************************************************************************)
(* throttleRequest of OpenRouterService and PexelsService.  Time is kept   *)
(* relative to the last request, in milliseconds, and only up to the       *)
(* minimum interval: a longer time passes the gate all the same.           *)
(***************************************************************************)
Services == {"text", "image"}

\* private minRequestInterval: number = 200 (OpenRouterService), 100
\* (PexelsService)
minRequestInterval(svc) == IF svc = "text" THEN 200 ELSE 100

\* Who calls the service.  generateBlogContent starts generateMetadata
\* without awaiting it and then awaits the expansion chain, so two calls of
\* the text service are in progress at once; generateImages awaits its
\* searches one after the other.
Callers(svc) == IF svc = "text" THEN {"expansion", "metadata"} ELSE {"images"}

\* The time that passes between two steps.
Elapses == {25, 50, 100}

VARIABLES
    service,        \* whose gate it is
    gpc,            \* per caller: "idle", or "waiting" in await this.delay
    timer,          \* per caller: what is left of the delay
    sinceLast,      \* Date.now() - this.lastRequestTime
    everSent,       \* a request has been sent
    gap             \* the time between the last two requests sent; undefined
                    \* before the second one

gateVars == <<service, gpc, timer, sinceLast, everSent, gap>>

IdleGate ==
    /\ service = "image"
    /\ gpc = [c \in Callers("image") |-> "idle"]
    /\ timer = [c \in Callers("image") |-> 0]
    /\ sinceLast = minRequestInterval("image")
    /\ everSent = FALSE
    /\ gap = undefined

\* private lastRequestTime: number = 0
InitGate ==
    /\ service \in Services
    /\ gpc = [c \in Callers(service) |-> "idle"]
    /\ timer = [c \in Callers(service) |-> 0]
    /\ sinceLast = minRequestInterval(service)
    /\ everSent = FALSE
    /\ gap = undefined

\* this.lastRequestTime = Date.now(), throttleRequest returns and the
\* request is sent.
SendRequest ==
    /\ gap' = IF everSent THEN sinceLast ELSE undefined
    /\ everSent' = TRUE
    /\ sinceLast' = 0

\* A caller enters throttleRequest: it returns at once, or the caller waits
\* in this.delay for what is missing of the interval.
EnterThrottle ==
    \E c \in Callers(service) :
        /\ gpc[c] = "idle"
        /\ LET timeSinceLastRequest == sinceLast
           IN  IF timeSinceLastRequest < minRequestInterval(service)
               THEN /\ gpc' = [gpc EXCEPT ![c] = "waiting"]
                    /\ timer' = [timer EXCEPT
                                    ![c] = minRequestInterval(service) - timeSinceLastRequest]
                    /\ UNCHANGED <<service, sinceLast, everSent, gap>>
               ELSE /\ SendRequest
                    /\ UNCHANGED <<service, gpc, timer>>

\* The timeout of this.delay fires.
DelayResolves ==
    \E c \in Callers(service) :
        /\ gpc[c] = "waiting"
        /\ timer[c] = 0
        /\ gpc' = [gpc EXCEPT ![c] = "idle"]
        /\ SendRequest
        /\ UNCHANGED <<service, timer>>

\* Time passes, no further than the next timeout.
TimePasses ==
    \E d \in Elapses :
        /\ \A c \in Callers(service) : gpc[c] = "waiting" => timer[c] >= d
        /\ sinceLast' = Min(minRequestInterval(service), sinceLast + d)
        /\ timer' = [c \in Callers(service) |->
                        IF gpc[c] = "waiting" THEN timer[c] - d ELSE timer[c]]
        /\ UNCHANGED <<service, gpc, everSent, gap>>

(***************************************************************************)
(* generateContentFromOutline request by request.  A text is known by the  *)
(* prompt it answers, so that the order of the body can be read off.       *)
(***************************************************************************)
\* Sections in the outline of the expansion: 1..MaxOutlineSections.
MaxOutlineSections == 2

\* The titles of the sections an outline may have.
SectionTitles == {"costs", "materials", "recycling"}

\* outline.sections: sections with different titles, in any order.
SectionLists ==
    {sections \in UNION {[1..n -> SectionTitles] : n \in 1..MaxOutlineSections} :
        \A a, b \in DOMAIN sections : a # b => sections[a] # sections[b]}

\* The prompts of generateIntroduction, generateSection, generateConclusion.
Prompt(slot, section) == [slot |-> slot, section |-> section]

IntroductionPrompt == Prompt("introduction", "none")

ConclusionPrompt == Prompt("conclusion", "none")

NoPrompt == Prompt("none", "none")

\* What a request gives the slot: a generated text without a conclusion
\* header, one with the header as "## Conclusion", one with it in capitals,
\* or no content (the slot then gets its fallback text), or a rejection.
ExpansionResponses ==
    {"text", "text with ## Conclusion", "text with ## CONCLUSION", "no content",
     "throw"}

\* The text a slot gets from its response: whose it is, whether it is the
\* fallback text, and the conclusion header written in it ("none": it has
\* none).  generateFallbackConclusion starts with "## Conclusion".
ExpandedText(prompt, response) ==
    [of |-> prompt,
     fallback |-> response = "no content",
     header |-> IF response = "text with ## CONCLUSION" THEN "## CONCLUSION"
                ELSE IF \/ response = "text with ## Conclusion"
                        \/ response = "no content" /\ prompt.slot = "conclusion"
                THEN "## Conclusion"
                ELSE "none",
     prepended |-> FALSE]

\* conclusion.includes("## Conclusion"): the header as it is written.
IncludesConclusionHeader_caseSensitive(text) == text.header = "## Conclusion"

\* conclusion.toLowerCase().includes("## conclusion")
IncludesConclusionHeader(text) ==
    LET lowerCase == IF text.header = "none" THEN "none" ELSE "## conclusion"
    IN  lowerCase = "## conclusion"

\* Ensure conclusion has proper header: finalConclusion, with prepended set
\* when it is `## Conclusion\n\n${conclusion}`.
WithConclusionHeader(text) ==
    IF IncludesConclusionHeader(text) THEN text
    ELSE [text EXCEPT !.prepended = TRUE]

\* for (let i = 0; i < outline.sections.length; i++)
SectionLoopContinues(loopIndex, sections) == loopIndex < Len(sections)

\* contentParts.join("\n\n")
RECURSIVE JoinParts(_)
JoinParts(texts) ==
    IF Len(texts) = 0 THEN <<>>
    ELSE IF Len(texts) = 1 THEN <<texts[1]>>
    ELSE <<texts[1], "\n\n">> \o JoinParts(Tail(texts))

VARIABLES
    epc,            \* "introduction", "section", "conclusion": the slot being
                    \* expanded; "returned", "thrown"
    outlineSections,    \* outline.sections
    loopIndex,      \* i of the section loop
    inFlight,       \* the prompt of the request awaited, or NoPrompt
    requested,      \* the prompts of the requests issued, in order
    contentParts,   \* const contentParts
    joined          \* const fullContent; <<>> before the join

expandVars ==
    <<epc, outlineSections, loopIndex, inFlight, requested, contentParts, joined>>

IdleExpand ==
    /\ epc = "returned"
    /\ outlineSections = <<>>
    /\ loopIndex = 0
    /\ inFlight = NoPrompt
    /\ requested = <<>>
    /\ contentParts = <<>>
    /\ joined = <<>>

InitExpand ==
    /\ epc = "introduction"
    /\ outlineSections \in SectionLists
    /\ loopIndex = 0
    /\ inFlight = NoPrompt
    /\ requested = <<>>
    /\ contentParts = <<>>
    /\ joined = <<>>

\* The slot in hand calls generateContent and awaits it.
IssueExpansionRequest ==
    /\ epc \in {"introduction", "section", "conclusion"}
    /\ inFlight = NoPrompt
    /\ LET prompt == IF epc = "section"
                     THEN Prompt("section", outlineSections[loopIndex + 1])
                     ELSE Prompt(epc, "none")
       IN  /\ inFlight' = prompt
           /\ requested' = Append(requested, prompt)
    /\ UNCHANGED <<epc, outlineSections, loopIndex, contentParts, joined>>

\* The awaited request settles: a rejection leaves generateContentFromOutline
\* as an exception; otherwise the text (or the fallback) is pushed and the
\* function goes on to the next slot, or joins the parts after the conclusion.
ExpansionRequestSettles ==
    /\ inFlight # NoPrompt
    /\ inFlight' = NoPrompt
    /\ \E response \in ExpansionResponses :
          LET text == ExpandedText(inFlight, response)
              pushed == IF epc = "conclusion" THEN WithConclusionHeader(text) ELSE text
              nextIndex == IF epc = "section" THEN loopIndex + 1 ELSE loopIndex
          IN  IF response = "throw"
              THEN /\ epc' = "thrown"
                   /\ UNCHANGED <<loopIndex, contentParts, joined>>
              ELSE /\ contentParts' = Append(contentParts, pushed)
                   /\ loopIndex' = nextIndex
                   /\ epc' = IF epc = "conclusion" THEN "returned"
                             ELSE IF SectionLoopContinues(nextIndex, outlineSections)
                             THEN "section"
                             ELSE "conclusion"
                   /\ joined' = IF epc = "conclusion" THEN JoinParts(contentParts')
                                ELSE joined
    /\ UNCHANGED <<outlineSections, requested>>

(***************************************************************************)
(* fileUtils.ts: insertInlineImages and calculateImagePositions.  The      *)
(* content is described by the number of its paragraphs (the pieces of     *)
(* content.split("\n\n")), the images by their number; the markdown is the *)
(* sequence of paragraphs and images written to result.                    *)
(***************************************************************************)
MaxParagraphs == 8

MaxInlineImages == 3

Paragraph(n) == [kind |-> "paragraph", index |-> n]

ImageMarkdown(n) == [kind |-> "image", index |-> n]

\* calculateImagePositions(totalParagraphs, imageCount): positions[i - 1] for
\* i = 1..imageCount.
calculateImagePositions(total, count) ==
    IF count = 0 \/ total < 3 THEN <<>>
    ELSE LET interval == total \div (count + 1)
         IN  [n \in 1..count |-> Min(interval * n, total - 2)]

VARIABLES
    mpc,             \* "call", "loop", "returned"
    totalParagraphs, \* paragraphs.length
    imageCount,      \* images.length
    imagePositions,  \* const imagePositions
    paragraphIdx,    \* the loop variable of insertInlineImages
    imageIndex,      \* let imageIndex
    markdown         \* let result

insertVars ==
    <<mpc, totalParagraphs, imageCount, imagePositions, paragraphIdx,
      imageIndex, markdown>>

IdleInsert ==
    /\ mpc = "returned"
    /\ totalParagraphs = 1
    /\ imageCount = 0
    /\ imagePositions = <<>>
    /\ paragraphIdx = 0
    /\ imageIndex = 0
    /\ markdown = <<>>

InitInsert ==
    /\ mpc = "call"
    /\ totalParagraphs \in 1..MaxParagraphs
    /\ imageCount \in 0..MaxInlineImages
    /\ imagePositions = <<>>
    /\ paragraphIdx = 0
    /\ imageIndex = 0
    /\ markdown = <<>>

\* insertInlineImages up to the loop: without images the content is
\* returned as it is.
CallInsertInlineImages ==
    /\ mpc = "call"
    /\ IF imageCount = 0
       THEN /\ mpc' = "returned"
            /\ markdown' = [n \in 1..totalParagraphs |-> Paragraph(n - 1)]
            /\ UNCHANGED imagePositions
       ELSE /\ mpc' = "loop"
            /\ imagePositions' = calculateImagePositions(totalParagraphs, imageCount)
            /\ UNCHANGED markdown
    /\ UNCHANGED <<totalParagraphs, imageCount, paragraphIdx, imageIndex>>

\* One turn of the loop over the paragraphs.
AppendParagraph ==
    /\ mpc = "loop"
    /\ paragraphIdx < totalParagraphs
    /\ LET inserts == /\ \E n \in DOMAIN imagePositions :
                            imagePositions[n] = paragraphIdx
                      /\ imageIndex < imageCount
       IN  /\ markdown' = IF inserts
                          THEN markdown \o <<Paragraph(paragraphIdx),
                                             ImageMarkdown(imageIndex)>>
                          ELSE Append(markdown, Paragraph(paragraphIdx))
           /\ imageIndex' = IF inserts THEN imageIndex + 1 ELSE imageIndex
    /\ paragraphIdx' = paragraphIdx + 1
    /\ UNCHANGED <<mpc, totalParagraphs, imageCount, imagePositions>>

\* The loop is over: return result.
ReturnMarkdown ==
    /\ mpc = "loop"
    /\ paragraphIdx = totalParagraphs
    /\ mpc' = "returned"
    /\ UNCHANGED <<totalParagraphs, imageCount, imagePositions, paragraphIdx,
                   imageIndex, markdown>>

(***************************************************************************)
(* Specifications.                                                         *)
(***************************************************************************)
extraVars == <<validateVars, titleVars, gateVars, expandVars, insertVars>>

IdleExtra == IdleValidate /\ IdleTitles /\ IdleGate /\ IdleExpand /\ IdleInsert

vars == <<retryVars, batchVars, imageVars, extraVars>>

\* No batch is running.
IdleBatch ==
    /\ posts = <<>>
    /\ idx = 1
    /\ bpc = "done"
    /\ stage = "start"
    /\ outline = NoOutline
    /\ secIdx = 0
    /\ parts = <<>>
    /\ body = EmptyBody
    /\ fullContent = EmptyBody
    /\ meta = "none"
    /\ orphans = 0
    /\ cover = "undefined"
    /\ inline = NoInlineImages
    /\ savedFiles = <<>>
    /\ errors = <<>>
    /\ log = <<>>

\* No withRetry call is being looked at.
IdleRetry ==
    /\ site = [op |-> "generic", options |-> NoOptions]
    /\ config = DEFAULT_RETRY_OPTIONS
    /\ attempt = 0
    /\ pc = "returned"
    /\ calls = 0
    /\ sleeps = 0
    /\ lastError = NoError
    /\ thrown = NoError
    /\ result = NoResult
    /\ delayMs = undefined
    /\ transport = NoTransport
    /\ rateLimitInfo = NoRateLimitInfo
    /\ now = 0

\* One call of withRetry.
Init == InitRetry /\ IdleBatch /\ IdleImages /\ IdleExtra

Next ==
    \/ InvokeOperation /\ UNCHANGED <<batchVars, imageVars, extraVars>>
    \/ InvokeServiceOk /\ UNCHANGED <<batchVars, imageVars, extraVars>>
    \/ InvokeServiceError /\ UNCHANGED <<batchVars, imageVars, extraVars>>
    \/ Wake /\ UNCHANGED <<batchVars, imageVars, extraVars>>

Spec == Init /\ [][Next]_vars

\* One run of the batch driver.
InitB == IdleRetry /\ InitBatch /\ IdleImages /\ IdleExtra

NextB ==
    \/ GenerateOutline /\ UNCHANGED <<retryVars, imageVars, extraVars>>
    \/ ExpandIntroduction /\ UNCHANGED <<retryVars, imageVars, extraVars>>
    \/ ExpandSection /\ UNCHANGED <<retryVars, imageVars, extraVars>>
    \/ ExpandConclusion /\ UNCHANGED <<retryVars, imageVars, extraVars>>
    \/ MetadataSettles /\ UNCHANGED <<retryVars, imageVars, extraVars>>
    \/ AwaitMetadata /\ UNCHANGED <<retryVars, imageVars, extraVars>>
    \/ GenerateImages /\ UNCHANGED <<retryVars, imageVars, extraVars>>
    \/ ValidateBlogPost /\ UNCHANGED <<retryVars, imageVars, extraVars>>
    \/ PreSaveValidate /\ UNCHANGED <<retryVars, imageVars, extraVars>>
    \/ SavePost /\ UNCHANGED <<retryVars, imageVars, extraVars>>
    \/ OrphanSettles /\ UNCHANGED <<retryVars, imageVars, extraVars>>
    \/ Finish /\ UNCHANGED <<retryVars, imageVars, extraVars>>

SpecBatch == InitB /\ [][NextB]_vars

\* The calls of the image search.
InitSearch == IdleRetry /\ IdleBatch /\ IdleImages /\ IdleExtra

NextSearch ==
    \/ CallFindCoverImage /\ UNCHANGED <<retryVars, batchVars, extraVars>>
    \/ CallFindInlineImages /\ UNCHANGED <<retryVars, batchVars, extraVars>>

SpecSearch == InitSearch /\ [][NextSearch]_vars

\* The images of one post, from the searches to savePostToMarkdown.
InitPost == IdleRetry /\ IdleBatch /\ IdleImages /\ IdleExtra

NextPost ==
    \/ AttachCover /\ UNCHANGED <<retryVars, batchVars, extraVars>>
    \/ AttachInlineImages /\ UNCHANGED <<retryVars, batchVars, extraVars>>
    \/ ValidatePostImages /\ UNCHANGED <<retryVars, batchVars, extraVars>>
    \/ PreSaveImageUrls /\ UNCHANGED <<retryVars, batchVars, extraVars>>

SpecPost == InitPost /\ [][NextPost]_vars

\* validateContent applied to a body.
InitV == IdleRetry /\ IdleBatch /\ IdleImages /\ InitValidate /\ IdleTitles /\ IdleGate
         /\ IdleExpand /\ IdleInsert

NextV ==
    \/ CallValidateContent /\ UNCHANGED <<retryVars, batchVars, imageVars, titleVars, gateVars,
                       expandVars, insertVars>>

SpecValidate == InitV /\ [][NextV]_vars

\* filterDuplicateTitles applied to proposed titles.
InitT == IdleRetry /\ IdleBatch /\ IdleImages /\ IdleValidate /\ InitTitles /\ IdleGate
         /\ IdleExpand /\ IdleInsert

NextT ==
    \/ CallFilterDuplicateTitles
          /\ UNCHANGED <<retryVars, batchVars, imageVars, validateVars, gateVars,
                       expandVars, insertVars>>
    \/ SavePostToMarkdown
          /\ UNCHANGED <<retryVars, batchVars, imageVars, validateVars, gateVars,
                       expandVars, insertVars>>
    \/ PostFails
          /\ UNCHANGED <<retryVars, batchVars, imageVars, validateVars, gateVars,
                       expandVars, insertVars>>

SpecTitles == InitT /\ [][NextT]_vars

\* The gate of one service and its callers.
InitG ==
    /\ IdleRetry /\ IdleBatch /\ IdleImages /\ IdleValidate /\ IdleTitles
    /\ InitGate /\ IdleExpand /\ IdleInsert

NextG ==
    \/ EnterThrottle
          /\ UNCHANGED <<retryVars, batchVars, imageVars, validateVars, titleVars,
                         expandVars, insertVars>>
    \/ DelayResolves
          /\ UNCHANGED <<retryVars, batchVars, imageVars, validateVars, titleVars,
                         expandVars, insertVars>>
    \/ TimePasses
          /\ UNCHANGED <<retryVars, batchVars, imageVars, validateVars, titleVars,
                         expandVars, insertVars>>

SpecGate == InitG /\ [][NextG]_vars

\* One call of generateContentFromOutline.
InitE ==
    /\ IdleRetry /\ IdleBatch /\ IdleImages /\ IdleValidate /\ IdleTitles
    /\ IdleGate /\ InitExpand /\ IdleInsert

NextE ==
    \/ IssueExpansionRequest
          /\ UNCHANGED <<retryVars, batchVars, imageVars, validateVars, titleVars,
                         gateVars, insertVars>>
    \/ ExpansionRequestSettles
          /\ UNCHANGED <<retryVars, batchVars, imageVars, validateVars, titleVars,
                         gateVars, insertVars>>

SpecExpand == InitE /\ [][NextE]_vars

\* One call of insertInlineImages.
InitM ==
    /\ IdleRetry /\ IdleBatch /\ IdleImages /\ IdleValidate /\ IdleTitles
    /\ IdleGate /\ IdleExpand /\ InitInsert

NextM ==
    \/ CallInsertInlineImages
          /\ UNCHANGED <<retryVars, batchVars, imageVars, validateVars, titleVars,
                         gateVars, expandVars>>
    \/ AppendParagraph
          /\ UNCHANGED <<retryVars, batchVars, imageVars, validateVars, titleVars,
                         gateVars, expandVars>>
    \/ ReturnMarkdown
          /\ UNCHANGED <<retryVars, batchVars, imageVars, validateVars, titleVars,
                         gateVars, expandVars>>

SpecInsert == InitM /\ [][NextM]_vars

(***************************************************************************)
(* Claims about withRetry.                                                 *)
(***************************************************************************)
\* Every invocation so far has failed with a RetryableError: the latest
\* invocation threw one, and an earlier success or other error would have
\* ended the call.
AllFailedRetryable ==
    /\ calls >= 1
    /\ lastError.at = calls
    /\ lastError.name = "RetryableError"

\* C1 as stated: with a limit of 3 and an operation that always fails with a
\* retryable error, the operation is invoked exactly 3 times and the error of
\* the final (third) invocation is re-raised.
C1_ThreeInvocations ==
    (config.maxRetries = 3 /\ AllFailedRetryable) =>
        /\ calls <= 3
        /\ (pc = "thrown") <=> (calls = 3)
        /\ (pc = "thrown") => (thrown = lastError /\ thrown.at = calls)

\* C1 amended: with maxRetries = 3 and an operation that always fails with a
\* retryable error, the operation is invoked exactly 4 times (the first
\* attempt and 3 retries) and the error of the final invocation is re-raised.
C1_FourInvocations ==
    (config.maxRetries = 3 /\ AllFailedRetryable) =>
        /\ calls <= 4
        /\ (pc = "thrown") <=> (calls = 4)
        /\ (pc = "thrown") => (thrown = lastError /\ thrown.at = calls)

C1_Witness ==
    /\ config.maxRetries = 3
    /\ pc = "thrown"
    /\ thrown.name = "RetryableError"
    /\ calls = 4
    /\ sleeps = 3

\* C2: an invocation that fails with an error that is not a RetryableError
\* ends the call at once: that same error is thrown, no further invocation and
\* no delay follow, and when it is the first invocation there has been exactly
\* one invocation and no delay, whatever the limit.
C2_NonRetryableStopsAtOnce ==
    (lastError.name \in {"Error", "TransportError"}) =>
        /\ pc = "thrown"
        /\ thrown = lastError
        /\ calls = lastError.at
        /\ sleeps = calls - 1
        /\ (lastError.at = 1 => (calls = 1 /\ sleeps = 0 /\ delayMs = undefined))

C2_Witness ==
    /\ config.maxRetries = 3
    /\ pc = "thrown"
    /\ thrown.name = "Error"
    /\ calls = 1
    /\ sleeps = 0

\* C3: while the number of retryable failures is within the limit none of them
\* reaches the caller and another invocation follows; when invocation k+1
\* succeeds after k retryable failures, withRetry returns the value of that
\* invocation, after exactly k+1 invocations and k delays, and throws nothing.
C3_EventualSuccessIsReturned ==
    /\ (AllFailedRetryable /\ calls <= config.maxRetries) =>
          (pc \in {"sleep", "call"} /\ thrown = NoError)
    /\ (result # NoResult \/ pc = "returned") =>
          /\ pc = "returned"
          /\ result.at = calls
          /\ calls = attempt + 1
          /\ sleeps = attempt
          /\ thrown = NoError
          /\ (calls > 1 => (lastError.name = "RetryableError"
                            /\ lastError.at = calls - 1))

C3_Witness ==
    /\ pc = "returned"
    /\ calls = 3
    /\ result.at = 3
    /\ lastError.name = "RetryableError"
    /\ lastError.at = 2
    /\ lastError.retryAfterMs = 1000

C5_ExponentialDelayRange ==
    (pc = "sleep" /\ lastError.retryAfterMs = undefined) =>
        LET lo == config.baseDelayMs * Pow(config.exponentialBase, attempt)
        IN  /\ delayMs <= config.maxDelayMs
            /\ (lo >= config.maxDelayMs) => (delayMs = config.maxDelayMs)
            /\ (lo < config.maxDelayMs) =>
                  (lo <= delayMs /\ 10 * delayMs <= 11 * lo)

C5_Witness ==
    /\ pc = "sleep"
    /\ lastError.retryAfterMs = undefined
    /\ attempt = 2
    /\ delayMs > config.baseDelayMs * Pow(config.exponentialBase, 2)
    /\ delayMs < config.maxDelayMs

\* C6: a failure is retried only if its status code is in the effective
\* retryableErrors or it is a network failure (status 0); a failure with a
\* status code outside the set is thrown at once.
C6_RetriesOnlyListedStatuses ==
    /\ (pc = "sleep") =>
          (lastError.statusCode \in config.retryableErrors
           \/ lastError.statusCode = 0)
    /\ (/\ lastError # NoError
        /\ lastError.at = calls
        /\ lastError.statusCode \notin config.retryableErrors
        /\ lastError.statusCode \notin {0, undefined}) => (pc = "thrown")

(***************************************************************************)
(* Claims about handleApiError and parseRateLimitHeaders.                  *)
(***************************************************************************)
\* The latest invocation was a service call that failed with a response, and
\* withRetry has just handled the error handleApiError made of it.
ClassifiedResponse ==
    /\ site.op = "service"
    /\ pc \in {"sleep", "thrown"}
    /\ lastError.at = calls
    /\ transport.hasResponse

\* C7: every response with a 4xx status other than 429 becomes a non-retryable
\* client error, whatever its headers, and is never retried.
C7_Other4xxIsClientError ==
    (/\ ClassifiedResponse
     /\ transport.status >= 400
     /\ transport.status < 500
     /\ transport.status # 429) =>
        /\ lastError.name = "Error"
        /\ lastError.statusCode = transport.status
        /\ pc = "thrown"

\* C8: every response with a status from 500 to 599 becomes a retryable error
\* carrying that status, and is retried while attempts remain.
C8_Every5xxIsRetryable ==
    (/\ ClassifiedResponse
     /\ transport.status >= 500
     /\ transport.status <= 599) =>
        /\ lastError.name = "RetryableError"
        /\ lastError.statusCode = transport.status
        /\ (attempt < config.maxRetries) => (pc = "sleep")

\* The number a string of digits spells, by place value.
RECURSIVE C9_Decimal(_)
C9_Decimal(s) ==
    IF Len(s) = 0 THEN 0
    ELSE DigitVal(s[1]) * Pow(10, Len(s) - 1) + C9_Decimal(Tail(s))

C9_AllDigits(s) ==
    s # <<>> /\ \A i \in 1..Len(s) : s[i] \in {Digits[d] : d \in 1..10}

C9_DateLike(s) == Len(s) >= 2 /\ s[1] = "D" /\ C9_AllDigits(Tail(s))

\* C9: a Retry-After of digits N gives a wait of N * 1000 ms, a date gives the
\* time from now to that date and never less than 0, either of them sets
\* isRateLimited, and without a Retry-After header isRateLimited is false,
\* whatever the remaining and reset headers are.
C9_RetryAfterParsing ==
    transport.hasResponse =>
        LET h == transport.headers.retryAfter
        IN  /\ C9_AllDigits(h) =>
                  /\ rateLimitInfo.retryAfterMs = C9_Decimal(h) * 1000
                  /\ rateLimitInfo.isRateLimited
            /\ C9_DateLike(h) =>
                  /\ rateLimitInfo.retryAfterMs =
                        Max(0, C9_Decimal(Tail(h)) * 1000 - now)
                  /\ rateLimitInfo.isRateLimited
            /\ (h = NoHeader) =>
                  /\ ~rateLimitInfo.isRateLimited
                  /\ rateLimitInfo.retryAfterMs = undefined

C9_Witness ==
    /\ transport.hasResponse
    /\ transport.headers.retryAfter = <<"D", "9">>
    /\ now = 5000
    /\ rateLimitInfo.isRateLimited
    /\ rateLimitInfo.retryAfterMs = 4000

(***************************************************************************)
(* Claims about the batch driver.                                          *)
(***************************************************************************)
\* C10: in a batch of two titles, when the outline response for the first
\* title lacks the conclusion field, the first title is aborted with an error
\* that names that title and nothing is saved for it, the driver goes on to
\* the second title, and the second title, when every upstream answer to it
\* is a good one, is generated and saved.
C10_OutlineWithoutConclusionAbortsOnlyThatTitle ==
    log[1].outline = "noConclusion" =>
        /\ Len(errors) >= 1
        /\ errors[1] = [title |-> posts[1], error |-> ErrorAt("outline", posts[1])]
        /\ \A f \in 1..Len(savedFiles) : savedFiles[f] # posts[1]
        /\ idx >= 2
        /\ (idx = 2 /\ log[2].good) => bpc = "running"
        /\ (idx > 2 /\ log[2].good) =>
              /\ Len(savedFiles) >= 1
              /\ savedFiles[1] = posts[2]
              /\ \A e \in 1..Len(errors) : errors[e].title # posts[2]

\* The batch is over: the first title was aborted for its outline without a
\* conclusion and the second title was saved.
C10_Witness ==
    /\ bpc = "done"
    /\ log[1].outline = "noConclusion"
    /\ log[2].outline = "valid"
    /\ log[2].good
    /\ Len(errors) = 1
    /\ Len(savedFiles) = 1
    /\ savedFiles[1] = posts[2]


\* Title i of the list has been saved or has been recorded as failed.
Completed(i) ==
    \/ \E f \in 1..Len(savedFiles) : savedFiles[f] = posts[i]
    \/ \E e \in 1..Len(errors) : errors[e].title = posts[i]

\* C11: the batch driver attempts every title exactly once and in list order,
\* each only after the title before it was saved or recorded as failed; a
\* failure of one title never keeps a later title from being attempted (the
\* driver stops only with every title attempted); and when the driver stops,
\* the saved documents and the recorded failures together are as many as the
\* titles attempted.
C11_EveryTitleAttemptedOnceInOrder ==
    /\ \A i \in 1..Len(posts) : log[i].attempts <= 1
    /\ \A i \in 2..Len(posts) :
          log[i].attempts > 0 => log[i - 1].attempts > 0 /\ Completed(i - 1)
    /\ bpc # "running" => \A i \in 1..Len(posts) : log[i].attempts = 1
    /\ bpc # "running" =>
          Len(savedFiles) + Len(errors)
             = Cardinality({i \in 1..Len(posts) : log[i].attempts > 0})


\* C12: a title whose cover image was not found is aborted: the pipeline
\* never returns a validated document without a cover, and
\* savePostToMarkdown is never called with one.
C12_NoDocumentWithoutCover ==
    (bpc = "running" /\ stage \in {"save", "write"}) => cover = "found"


\* The slots of the body that are expanded one request each.
ExpansionSlots == {"introduction", "section", "conclusion"}

\* C13: a failing expansion call, be it a rejected request or an empty
\* response, never aborts the title (no recorded failure stems from an
\* expansion request); the slot gets its fallback text and the slots after it
\* are still expanded (a body that reaches the metadata stage has every slot
\* of its outline, each with the generated text or the fallback).
C13_ExpansionFailureNeverAborts ==
    /\ \A e \in 1..Len(errors) : errors[e].error.stage \notin ExpansionSlots
    /\ (bpc = "running" /\ stage = "metadata") =>
          /\ Len(parts) = outline.sections + 2
          /\ \A k \in 1..Len(parts) : parts[k].slot \in ExpansionSlots


\* C14: a metadata request that fails (it is rejected, or it resolves without
\* content) or whose response does not parse never aborts the title: no
\* recorded failure and no end of the process stems from the metadata request
\* of the title in hand, and the document that is assembled then carries the
\* default tags and category (those of the parse fallback when the response
\* did not parse).
C14_MetadataFailureGivesDefaults ==
    /\ \A e \in 1..Len(errors) : errors[e].error.stage # "metadata"
    /\ meta # "rejected"
    /\ (bpc = "running" /\ stage \in {"validate", "save", "write"}) =>
          /\ meta = "failed" => PostMetadata(meta) = "default"
          /\ meta = "fallback" => PostMetadata(meta) = "fallback"


\* C15: a failure while the inline images are resolved (the image-query
\* request is rejected, the image search is rejected, or no image survives
\* the filters) never aborts the title: no recorded failure stems from it, and
\* the document that goes on to validation and saving has no inline images.
C15_InlineFailureNeverAborts ==
    /\ \A e \in 1..Len(errors) : errors[e].error.stage # "inline"
    /\ (bpc = "running" /\ stage \in {"validate", "save", "write"}) =>
          (inline.failure # "none" <=> inline.length = 0)

\* A document whose image search was rejected is handed to savePostToMarkdown
\* with no inline images.
C15_Witness ==
    /\ bpc = "running"
    /\ stage = "write"
    /\ inline.failure = "search"
    /\ inline.length = 0


(***************************************************************************)
(* Claims about the image search.                                          *)
(***************************************************************************)
\* The places in a search result of the photos that pass the structural test
\* and have no excluded keyword in their alt text.
PassingPlaces(photos) ==
    {k \in 1..Len(photos) :
        /\ isValidPexelsPhoto(photos[k])
        /\ ~HasExcludedContent(photos[k].alt)}

\* C16: findCoverImage returns the first photo, in the order of the search
\* result, that passes both the structural test and the alt-text test, and
\* reports not found when none passes both.
C16_FirstPassingCandidate ==
    ipc = "cover" =>
        LET passing == PassingPlaces(coverSearch)
        IN  IF passing = {}
            THEN ~coverResponse.success
            ELSE /\ coverResponse.success
                 /\ \E k \in passing :
                       /\ \A j \in passing : k <= j
                       /\ coverResponse.data = coverSearch[k].src.large

\* The only valid photo has an excluded keyword (not found), and the same
\* list followed by a valid clean photo gives that photo.
C16_Witness ==
    /\ ipc = "cover"
    /\ Len(coverSearch) = 2
    /\ isValidPexelsPhoto(coverSearch[1])
    /\ HasExcludedContent(coverSearch[1].alt)
    /\ ~findCoverImage(<<coverSearch[1]>>).success
    /\ coverResponse.success
    /\ coverResponse.data = coverSearch[2].src.large


\* The place in a search result of the m-th photo that passes both tests.
NthPassingPlace(photos, m) ==
    CHOOSE k \in PassingPlaces(photos) :
        Cardinality({j \in PassingPlaces(photos) : j <= k}) = m

\* How many images query q may contribute.
ImagesDue(q) ==
    Min(imagesPerQuery, Cardinality(PassingPlaces(inlineSearch[q])))

RECURSIVE ImagesDueBefore(_)
\* How many images the queries before query q may contribute.
ImagesDueBefore(q) ==
    IF q = 1 THEN 0 ELSE ImagesDueBefore(q - 1) + ImagesDue(q - 1)

\* C17: findInlineImages resolves with success, and its images are, query
\* after query in list order, the first imagesPerQuery photos of the query's
\* search result that pass both tests (all of them when fewer pass), in the
\* order of the search result; with no such photo at all it still resolves
\* with success, and an empty list.
C17_InlineImagesPerQueryInOrder ==
    ipc = "inline" =>
        LET data == inlineResponse.data
            n == Len(inlineSearch)
        IN  /\ inlineResponse.success
            /\ Len(data) = ImagesDueBefore(n + 1)
            /\ \A q \in 1..n : \A m \in 1..ImagesDue(q) :
                  LET photo == inlineSearch[q][NthPassingPlace(inlineSearch[q], m)]
                      image == data[ImagesDueBefore(q) + m]
                  IN  /\ image.photographer = photo.photographer
                      /\ image.url = photo.src.medium

\* Two queries with one image each allowed: the first search has two passing
\* photos and gives only its first, the second gives one more.
C17_Witness ==
    /\ ipc = "inline"
    /\ Len(inlineSearch) = 2
    /\ imagesPerQuery = 1
    /\ Cardinality(PassingPlaces(inlineSearch[1])) = 2
    /\ Cardinality(PassingPlaces(inlineSearch[2])) = 1
    /\ Len(inlineSearch[2]) = 2
    /\ Len(inlineResponse.data) = 2
    /\ inlineResponse.data[1].photographer = inlineSearch[1][1].photographer


\* The provenance predicate: an https URL whose host is pexels.com or a
\* subdomain of it.
Provenance(url) ==
    /\ url.scheme = "https"
    /\ url.host \in {"images.pexels.com", "www.pexels.com"}

\* C18: every image reference of a post that passed validation and is handed
\* to savePostToMarkdown satisfies the provenance predicate in all its URL
\* fields: the cover URL and, of each inline image, the image URL, the
\* photographer's profile URL and the photo page URL.
C18_HandedImagesHaveProvenance ==
    ipc = "handed" =>
        /\ Provenance(post.coverImageUrl)
        /\ \A k \in 1..Len(post.inlineImages) :
              /\ Provenance(post.inlineImages[k].url)
              /\ Provenance(post.inlineImages[k].photographerUrl)
              /\ Provenance(post.inlineImages[k].pexelsUrl)


\* The stages at which the content stage has returned a body: the body is
\* then validated (stage "validate"), checked once more before saving
\* (stage "save") and handed to savePostToMarkdown (stage "write").
ContentReturned ==
    bpc = "running" /\ stage \in {"metadata", "images", "validate", "save", "write"}

ConclusionMarkers(c) == {k \in 1..Len(c) : c[k] \in ConclusionHeaders}

\* C21: every body that validation accepts is non-empty and contains at
\* least one section-heading marker and exactly one recognized conclusion
\* marker.
C21_AcceptedBodyHasOneConclusionMarker ==
    (vpc = "returned" /\ verdict = "ok") =>
        /\ Len(content) > 0
        /\ \E k \in 1..Len(content) : content[k] \in ConclusionHeaders \cup {"## section"}
        /\ Cardinality(ConclusionMarkers(content)) = 1

\* C22: validation accepts a body only if it contains the "## Conclusion"
\* header or one of the synonym headers; a body with none of these headers
\* is rejected with a validation error.
C22_AcceptedOnlyWithConclusionHeader ==
    vpc = "returned" =>
        (verdict = "ok" => \E k \in 1..Len(content) : content[k] \in ConclusionHeaders)


\* C23: with existing = ["The Future of Sustainable Packaging"], the
\* candidate "Future of Sustainable Packaging Solutions" is reported as a
\* duplicate by isDuplicateTitle.
C23_SolutionsTitleIsDuplicate ==
    (tpc = "returned" /\ existingTitles = <<FuturePackaging>>) =>
        \A k \in DOMAIN newTitles :
            newTitles[k] = FuturePackagingSolutions => isDuplicate[k]

\* The normalized words longer than two characters of a title, as a set.
WordSet(title) == Range(LongWords(normalizeTitle(title)))

\* The rule as stated: identical normalized forms, or the shared words are
\* at least 0.8 of the larger of the two word sets.
DuplicateBySets(candidate, existing) ==
    \E k \in DOMAIN existing :
        LET A == WordSet(candidate)
            B == WordSet(existing[k])
            larger == Max(Cardinality(A), Cardinality(B))
        IN  \/ normalizeTitle(candidate) = normalizeTitle(existing[k])
            \/ larger > 0 /\ 5 * Cardinality(A \cap B) >= 4 * larger

\* C24: isDuplicateTitle(candidate, existing) is true exactly when some
\* existing title has the same normalized form or shares at least 0.8 of the
\* larger word set, repeated words counted once; and "The History of
\* Sustainable Packaging" is not a duplicate of "The Future of Sustainable
\* Packaging".
C24_DuplicateExactlyBySetSimilarity ==
    tpc = "returned" =>
        \A k \in DOMAIN newTitles :
            /\ isDuplicate[k] = DuplicateBySets(newTitles[k], existingTitles)
            /\ (newTitles[k] = HistoryPackaging /\ existingTitles = <<FuturePackaging>>)
                   => ~isDuplicate[k]

\* A title without its letter case, its punctuation and the amount of its
\* white space: only letters, digits and single spaces between words remain.
Canonical(title) ==
    Trim(CollapseWhiteSpace(
        SelectSeq(LowerCased(title),
                  LAMBDA c : \/ c \in Range(LowerCaseLetters) \cup Range(Digits)
                             \/ IsWhiteSpace(c))))

\* C25: two titles that differ only in letter case, punctuation or amount of
\* white space are duplicates of each other: isDuplicateTitle is true for a
\* candidate that differs from some existing title in nothing else.
C25_CasePunctuationSpacingAreIgnored ==
    tpc = "returned" =>
        \A k \in DOMAIN newTitles :
            (\E e \in DOMAIN existingTitles :
                  Canonical(newTitles[k]) = Canonical(existingTitles[e]))
                => isDuplicate[k]

\* The places of newTitles whose title is not a duplicate.
Survivors == {k \in DOMAIN newTitles : ~isDuplicate[k]}

\* The place of the j-th survivor.
SurvivorPlace(j) ==
    CHOOSE k \in Survivors : Cardinality({i \in Survivors : i < k}) = j - 1

\* C26: filterDuplicateTitles returns exactly the candidates that are not
\* duplicates of any existing title, in their original relative order, and
\* the count reported as removed is the input length minus the result length.
C26_FilterKeepsNonDuplicatesInOrder ==
    tpc = "returned" =>
        /\ Len(filtered) = Cardinality(Survivors)
        /\ \A j \in 1..Len(filtered) : filtered[j] = newTitles[SurvivorPlace(j)]
        /\ duplicatesCount = Len(newTitles) - Len(filtered)
        /\ duplicatesCount = Cardinality(DOMAIN newTitles \ Survivors)

\* Two proposals, the second one a duplicate of an existing title but for
\* its case, punctuation and spacing: the first is returned and one is
\* reported as removed.
C26_Witness ==
    /\ tpc = "returned"
    /\ existingTitles = <<FuturePackaging>>
    /\ newTitles = <<PackagingCaseStudies, FuturePackagingSpaced>>
    /\ filtered = <<PackagingCaseStudies>>
    /\ duplicatesCount = 1


\* C27: any two requests sent to a service are separated by at least the
\* minimum interval of the service (200 ms for the text service, 100 ms for
\* the image service), also when two requests wait at the gate at the same
\* time.
C27_RequestsKeepMinimumInterval ==
    gap # undefined => gap >= minRequestInterval(service)


\* C28: a failure of the metadata request of a title, whenever it happens
\* relative to the expansion requests of that title, is handled within the
\* title and the batch goes on: it never ends the process as an unhandled
\* rejection.
C28_MetadataFailureNeverEndsProcess ==
    bpc # "exited"


\* The expansion requests of an outline, in order: the introduction, each
\* section in outline order, the conclusion.
ExpectedRequests ==
    <<IntroductionPrompt>>
    \o [k \in DOMAIN outlineSections |-> Prompt("section", outlineSections[k])]
    \o <<ConclusionPrompt>>

\* C29: for an outline with n sections exactly n+2 expansion requests are
\* issued, one at a time, in the order introduction, section 1 to section n,
\* conclusion, and the assembled body is the n+2 slot texts joined in that
\* order with a blank line between them.
C29_ExpansionRequestsInOutlineOrder ==
    /\ Len(requested) <= Len(ExpectedRequests)
    /\ \A k \in DOMAIN requested : requested[k] = ExpectedRequests[k]
    /\ Len(requested) <= Len(contentParts) + 1
    /\ inFlight # NoPrompt => Len(requested) = Len(contentParts) + 1
    /\ epc \in {"returned", "thrown"} => requested = ExpectedRequests
    /\ epc = "returned" =>
          /\ Len(joined) = 2 * Len(ExpectedRequests) - 1
          /\ \A k \in DOMAIN ExpectedRequests :
                /\ joined[2 * k - 1] = contentParts[k]
                /\ joined[2 * k - 1].of = ExpectedRequests[k]
                /\ k > 1 => joined[2 * k - 2] = "\n\n"


\* C30: an outline response with an empty sections list, or without a title,
\* an introduction or a conclusion, or one that cannot be parsed, is
\* rejected: the title fails at the outline stage, and no expansion, metadata
\* or image request is issued for it (whatever is past the outline stage has
\* an outline with all four fields and at least one section).
C30_InvalidOutlineIsRejected ==
    /\ \A i \in 1..Len(posts) :
          (i < idx /\ log[i].outline \in {"empty", "unparsable", "noConclusion",
                                          "otherFieldMissing"})
             => \E e \in 1..Len(errors) :
                    errors[e] = [title |-> posts[i],
                                 error |-> ErrorAt("outline", posts[i])]
    /\ (stage # "start" \/ meta # "none") =>
          /\ outline.title
          /\ outline.introduction
          /\ outline.conclusion
          /\ outline.sections >= 1


\* C31: in every assembled body the conclusion slot has the conclusion
\* header: a conclusion text (generated or fallback) without "## Conclusion",
\* compared without regard to case, gets the header prepended, and a text
\* that has it is left as it is, so that the header is never there twice.
C31_ConclusionSlotHasHeaderOnce ==
    epc = "returned" =>
        LET last == contentParts[Len(contentParts)]
        IN  /\ last.of = ConclusionPrompt
            /\ joined[Len(joined)] = last
            /\ last.prepended <=> last.header = "none"

\* A generated conclusion with the header in capitals went into the body
\* without a second header.
C31_Witness ==
    /\ epc = "returned"
    /\ contentParts[Len(contentParts)].header = "## CONCLUSION"
    /\ ~contentParts[Len(contentParts)].fallback
    /\ ~contentParts[Len(contentParts)].prepended

(***************************************************************************)
(* Claims about timeouts and the waits between attempts.                   *)
(***************************************************************************)
\* The HTTP client gave up on the request after its own timeout (the error's
\* code is ECONNABORTED) or the socket timed out (ETIMEDOUT).
TimeoutCodes == {"ECONNABORTED", "ETIMEDOUT"}

\* C32: an upstream call that ends by a timeout is a retryable network-class
\* failure, and withRetry retries it while attempts remain.
C32_TimedOutCallIsRetried ==
    (/\ site.op = "service"
     /\ pc \in {"sleep", "thrown"}
     /\ lastError.at = calls
     /\ ~transport.hasResponse
     /\ transport.code \in TimeoutCodes) =>
        /\ lastError.name = "RetryableError"
        /\ (attempt < config.maxRetries) => (pc = "sleep")

\* C33: every wait of withRetry between two attempts is at most the maxDelayMs
\* of the effective policy, whether it is the exponential delay or comes from
\* a wait hint (a Retry-After header or the classifier's default hint).
C33_WaitWithinMaxDelay ==
    pc = "sleep" => delayMs <= config.maxDelayMs

\* C34: after a rate-limited response that has a Retry-After header the wait
\* is the duration parseRateLimitHeaders read from the header, for every
\* header value that is a number of seconds or a date, 0 seconds and a date
\* in the past (both 0 ms) included.
C34_WaitIsParsedRetryAfter ==
    (/\ ClassifiedResponse
     /\ pc = "sleep"
     /\ transport.status = 429
     /\ HeaderTruthy(transport.headers.retryAfter)
     /\ rateLimitInfo.retryAfterMs # NaN) =>
        delayMs = rateLimitInfo.retryAfterMs

\* C35: an outcome that the operation returns as a value with success = false
\* (no content in the response, no candidate left by the image filters) is no
\* failure for withRetry: the invocation that returned it is the last one, no
\* wait follows it, and the caller gets that value; when nothing failed before
\* it the operation was invoked exactly once and withRetry never waited.
C35_FailureValueIsNotRetried ==
    (site.op = "service" /\ pc = "returned" /\ ~result.success) =>
        /\ result.at = calls
        /\ sleeps = calls - 1
        /\ attempt = sleeps
        /\ thrown = NoError
        /\ lastError.at < calls
        /\ (lastError = NoError) => (calls = 1 /\ sleeps = 0)

\* The first invocation of a service call returned { success: false }.
C35_Witness ==
    /\ site.op = "service"
    /\ pc = "returned"
    /\ ~result.success
    /\ result.at = 1
    /\ calls = 1
    /\ sleeps = 0

(***************************************************************************)
(* Claims about saving.                                                    *)
(***************************************************************************)
\* C36: savePostToMarkdown is called with a document only after the final
\* validation of the pipeline and the image URL validation before the save
\* have both passed on it, and a title recorded with an error has no saved
\* file.
C36_SavedOnlyAfterBothValidations ==
    /\ (bpc = "running" /\ stage = "write") =>
          /\ ~hasInvalidImageContent(body)
          /\ body.h2
          /\ body.word
          /\ cover = "found"
    /\ \A e \in 1..Len(errors) : \A s \in 1..Len(savedFiles) :
          savedFiles[s] # errors[e].title
    /\ Len(savedFiles) + Len(errors) <= idx - 1

\* One title of the batch was saved and another was aborted by a validation.
C36_Witness ==
    /\ bpc = "done"
    /\ Len(savedFiles) = 1
    /\ \E e \in 1..Len(errors) :
          errors[e].error.stage \in {"validation", "imageUrls"}

\* C37: within one batch no two documents are written to the same file: the
\* file names of the posts saved so far are pairwise different, whatever
\* titles the batch has.
C37_NoTwoPostsInOneFile ==
    \A a, b \in DOMAIN writtenFiles :
        a # b => writtenFiles[a] # writtenFiles[b]

(***************************************************************************)
(* Claims about isDuplicateTitle as a relation.                            *)
(***************************************************************************)
\* C38: isDuplicateTitle is symmetric: for a proposed title a and an
\* existing title b, isDuplicateTitle(a, [b]) = isDuplicateTitle(b, [a]).
C38_DuplicateIsSymmetric ==
    tpc = "returned" =>
        \A k \in DOMAIN newTitles : \A j \in DOMAIN existingTitles :
            isDuplicateTitle(newTitles[k], <<existingTitles[j]>>)
                = isDuplicateTitle(existingTitles[j], <<newTitles[k]>>)

(***************************************************************************)
(* Claims about insertInlineImages.                                        *)
(***************************************************************************)
\* C39: when a post has k >= 1 inline images, calculateImagePositions gives
\* k different paragraph indices, each one of 0..totalParagraphs - 1, and the
\* markdown insertInlineImages returns has every image exactly once, for
\* every number of paragraphs.
C39_EveryImageInsertedOnce ==
    (mpc = "returned" /\ imageCount >= 1) =>
        /\ Len(imagePositions) = imageCount
        /\ \A a, b \in DOMAIN imagePositions :
              a # b => imagePositions[a] # imagePositions[b]
        /\ \A a \in DOMAIN imagePositions :
              imagePositions[a] \in 0..(totalParagraphs - 1)
        /\ \A n \in 0..(imageCount - 1) :
              Cardinality({at \in DOMAIN markdown :
                              markdown[at] = ImageMarkdown(n)}) = 1

=============================================================================
